---- MODULE Spec2Model ----
(***************************************************************************)
(* Model of LightController.ensure_state                                   *)
(* (custom_components/ha_light_controller/controller.py): entity           *)
(* resolution, target planning, batching, dispatch, verification and the   *)
(* bounded retry loop, run against a Home Assistant state machine whose    *)
(* light states change while the coroutine is suspended.                   *)
(*                                                                         *)
(* Python values that may be None or of several types are tagged records:  *)
(* None_ for None, Int_(n) for an int, Str_(s) for a str, List_(s) for a   *)
(* list.  An entity id "light.a" is the record Id("light", "a"), so that   *)
(* startswith("light.") is a test of the domain part.  A Python str that   *)
(* is parsed (the state argument) is a sequence of one-character strings.  *)
(* Time is counted in ticks of the monotonic clock.                        *)
(***************************************************************************)
EXTENDS Integers, Sequences, FiniteSets, TLC

\* ------------------------------------------------------------------------
\* Bounds of the model
\* ------------------------------------------------------------------------
MaxRetries == 2
MaxClock == 8

\* ------------------------------------------------------------------------
\* Python values
\* ------------------------------------------------------------------------
None_ == [t |-> "None"]
Int_(n) == [t |-> "int", v |-> n]
Str_(s) == [t |-> "str", v |-> s]
List_(s) == [t |-> "list", v |-> s]
Id(d, n) == [t |-> "str", domain |-> d, name |-> n]
EmptyDict == [k \in {} |-> None_]

Min(a, b) == IF a <= b THEN a ELSE b
Max(a, b) == IF a >= b THEN a ELSE b
Front(s) == SubSeq(s, 1, Len(s) - 1)
Last(s) == s[Len(s)]
Range(s) == {s[i] : i \in 1..Len(s)}

\* ------------------------------------------------------------------------
\* Constants of homeassistant.const and const.py
\* ------------------------------------------------------------------------
LIGHT_DOMAIN == "light"
STATE_ON == "on"
STATE_OFF == "off"
STATE_UNAVAILABLE == "unavailable"
STATE_UNKNOWN == "unknown"
RESULT_CODE_SUCCESS == "success"
RESULT_CODE_FAILED == "failed"
RESULT_CODE_TIMEOUT == "timeout"
RESULT_CODE_ERROR == "error"
RESULT_CODE_NO_VALID_ENTITIES == "no_valid_entities"
COLOR_MODE_RGB == "rgb"
COLOR_MODE_HS == "hs"
COLOR_MODE_COLOR_TEMP == "color_temp"

\* class TargetState
ON == "ON"
OFF == "OFF"
ValueError == "ValueError"
AttributeError == "AttributeError"
\* a state argument that is not a str (an int): it has no lower()
NotAString == <<"int">>

\* class VerificationResult
VR_SUCCESS == "success"
VR_WRONG_STATE == "wrong_state"
VR_WRONG_BRIGHTNESS == "brightness"
VR_WRONG_COLOR == "color"
VR_UNAVAILABLE == "unavailable"
VR_ERROR == "error"

\* ------------------------------------------------------------------------
\* TargetState.from_string
\* ------------------------------------------------------------------------
LowerChar(c) ==
    CASE c = "O" -> "o"
      [] c = "N" -> "n"
      [] c = "F" -> "f"
      [] c = "D" -> "d"
      [] c = "I" -> "i"
      [] c = "M" -> "m"
      [] OTHER -> c

lower(value) == [i \in 1..Len(value) |-> LowerChar(value[i])]

RECURSIVE lstrip(_)
lstrip(value) ==
    IF value # <<>> /\ value[1] = " " THEN lstrip(Tail(value)) ELSE value

RECURSIVE rstrip(_)
rstrip(value) ==
    IF value # <<>> /\ Last(value) = " " THEN rstrip(Front(value)) ELSE value

\* every blank removed, inner ones too
strip_all(value) == SelectSeq(value, LAMBDA c : c # " ")

\* str.strip(): leading and trailing whitespace
strip(value) == rstrip(lstrip(value))

from_string(value) ==
    LET normalized == strip(lower(value))
    IN  IF value = NotAString THEN AttributeError
        ELSE IF normalized = <<"o", "n">> THEN ON
        ELSE IF normalized = <<"o", "f", "f">> THEN OFF
        ELSE ValueError

\* ------------------------------------------------------------------------
\* Entity state helpers.  st is hass.states: a function from entity ids to
\* State records [state, attributes] or None_.
\* ------------------------------------------------------------------------
get_state(st, entity_id) ==
    IF entity_id \in DOMAIN st THEN st[entity_id] ELSE None_

\* availability that leaves "unknown" out
is_available_unavailable_only(st, entity_id) ==
    LET state == get_state(st, entity_id)
    IN  state # None_ /\ state.state # STATE_UNAVAILABLE

is_available(st, entity_id) ==
    LET state == get_state(st, entity_id)
    IN  state # None_ /\ state.state \notin {STATE_UNAVAILABLE, STATE_UNKNOWN}

startswith_light(entity_id) == entity_id.domain = LIGHT_DOMAIN

\* ------------------------------------------------------------------------
\* Entity expansion
\* ------------------------------------------------------------------------
Expanded(v, s, r) == [valid |-> v, skipped |-> s, raised |-> r]

\* the member loop without the test of the light domain
RECURSIVE expand_members_any_domain(_, _)
expand_members_any_domain(st, members) ==
    IF members = <<>> THEN Expanded(<<>>, <<>>, FALSE)
    ELSE LET member == members[1]
             rest == expand_members_any_domain(st, Tail(members))
         IN  IF member.t # "str" THEN Expanded(<<>>, <<>>, TRUE)
             ELSE IF is_available(st, member)
                  THEN Expanded(<<member>> \o rest.valid, rest.skipped, rest.raised)
                  ELSE Expanded(rest.valid, <<member>> \o rest.skipped, rest.raised)

\* the member loop of _expand_entity; member.startswith raises
\* AttributeError on a member that is not a str
RECURSIVE expand_members(_, _)
expand_members(st, members) ==
    IF members = <<>> THEN Expanded(<<>>, <<>>, FALSE)
    ELSE LET member == members[1]
             rest == expand_members(st, Tail(members))
         IN  IF member.t # "str" THEN Expanded(<<>>, <<>>, TRUE)
             ELSE IF ~startswith_light(member) THEN rest
             ELSE IF is_available(st, member)
                  THEN Expanded(<<member>> \o rest.valid, rest.skipped, rest.raised)
                  ELSE Expanded(rest.valid, <<member>> \o rest.skipped, rest.raised)

\* a light reference taken as valid whatever its state
expand_entity_any_state(st, entity_id) ==
    IF entity_id.t # "str" THEN Expanded(<<>>, <<>>, FALSE)
    ELSE LET state == get_state(st, entity_id)
             members == IF state # None_ THEN state.attributes.entity_id ELSE <<>>
         IN  IF members # <<>> THEN expand_members(st, members)
             ELSE IF startswith_light(entity_id)
                  THEN Expanded(<<entity_id>>, <<>>, FALSE)
             ELSE Expanded(<<>>, <<>>, FALSE)

\* lines 209-247
expand_entity(st, entity_id) ==
    IF entity_id.t # "str" THEN Expanded(<<>>, <<>>, FALSE)
    ELSE LET state == get_state(st, entity_id)
             members == IF state # None_ THEN state.attributes.entity_id ELSE <<>>
         IN  IF members # <<>> THEN expand_members(st, members)
             ELSE IF startswith_light(entity_id)
                  THEN IF is_available(st, entity_id)
                       THEN Expanded(<<entity_id>>, <<>>, FALSE)
                       ELSE Expanded(<<>>, <<entity_id>>, FALSE)
             ELSE Expanded(<<>>, <<>>, FALSE)

\* deduplication that keeps the last occurrence
RECURSIVE dict_fromkeys_last(_)
dict_fromkeys_last(s) ==
    IF s = <<>> THEN <<>>
    ELSE LET r == dict_fromkeys_last(Tail(s))
         IN  IF s[1] \in Range(r) THEN r ELSE <<s[1]>> \o r

\* list(dict.fromkeys(s))
RECURSIVE dict_fromkeys(_)
dict_fromkeys(s) ==
    IF s = <<>> THEN <<>>
    ELSE LET r == dict_fromkeys(Front(s))
         IN  IF Last(s) \in Range(r) THEN r ELSE Append(r, Last(s))

RECURSIVE expand_all(_, _)
expand_all(st, entities) ==
    IF entities = <<>> THEN Expanded(<<>>, <<>>, FALSE)
    ELSE LET one == expand_entity(st, entities[1])
             rest == expand_all(st, Tail(entities))
         IN  IF one.raised THEN Expanded(<<>>, <<>>, TRUE)
             ELSE Expanded(one.valid \o rest.valid, one.skipped \o rest.skipped,
                           rest.raised)

expand_entities(st, entities) ==
    LET all == expand_all(st, entities)
    IN  Expanded(dict_fromkeys(all.valid), dict_fromkeys(all.skipped), all.raised)

\* ------------------------------------------------------------------------
\* Target building
\* ------------------------------------------------------------------------
\* dict.get(key, default)
dict_get(d, key, default) == IF key \in DOMAIN d THEN d[key] ELSE default

\* the overrides dict of ensure_state: the last entry of a device wins
RECURSIVE build_overrides(_)
build_overrides(targets) ==
    IF targets = <<>> THEN EmptyDict
    ELSE LET t == Last(targets)
             prev == build_overrides(Front(targets))
         IN  IF "entity_id" \in DOMAIN t
             THEN [k \in (DOMAIN prev) \cup {t.entity_id} |->
                      IF k = t.entity_id THEN t ELSE prev[k]]
             ELSE prev

LightTarget(entity_id, brightness_pct, rgb_color, color_temp_kelvin, effect) ==
    [entity_id |-> entity_id, brightness_pct |-> brightness_pct,
     rgb_color |-> rgb_color, color_temp_kelvin |-> color_temp_kelvin,
     effect |-> effect]

\* the targets with the override of the first device applied to every device
build_targets_shared_override(members, overrides, default_brightness_pct, default_rgb_color, default_color_temp_kelvin, default_effect) ==
    [i \in 1..Len(members) |->
        LET entity_id == members[i]
            override == dict_get(overrides, members[1], EmptyDict)
        IN  LightTarget(
                entity_id,
                dict_get(override, "brightness_pct", default_brightness_pct),
                dict_get(override, "rgb_color", default_rgb_color),
                dict_get(override, "color_temp_kelvin",
                         dict_get(override, "color_temperature_kelvin",
                                  default_color_temp_kelvin)),
                dict_get(override, "effect", default_effect))]

\* LightController._build_targets
build_targets(members, overrides, default_brightness_pct, default_rgb_color, default_color_temp_kelvin, default_effect) ==
    [i \in 1..Len(members) |->
        LET entity_id == members[i]
            override == dict_get(overrides, entity_id, EmptyDict)
        IN  LightTarget(
                entity_id,
                dict_get(override, "brightness_pct", default_brightness_pct),
                dict_get(override, "rgb_color", default_rgb_color),
                dict_get(override, "color_temp_kelvin",
                         dict_get(override, "color_temperature_kelvin",
                                  default_color_temp_kelvin)),
                dict_get(override, "effect", default_effect))]

\* ------------------------------------------------------------------------
\* Batching
\* ------------------------------------------------------------------------
\* a list is falsy when it is None or empty
\* the settings key without the effect
settings_key_no_effect(x) ==
    << x.brightness_pct,
       IF x.rgb_color # None_ /\ x.rgb_color.v # <<>> THEN x.rgb_color ELSE None_,
       x.color_temp_kelvin >>

\* lines 317-323: the key of a target (and of the group made from it)
settings_key(x) ==
    << x.brightness_pct,
       IF x.rgb_color # None_ /\ x.rgb_color.v # <<>> THEN x.rgb_color ELSE None_,
       x.color_temp_kelvin,
       x.effect >>

RECURSIVE group_by_settings(_)
group_by_settings(targets) ==
    IF targets = <<>> THEN <<>>
    ELSE LET groups == group_by_settings(Front(targets))
             target == Last(targets)
             key == settings_key(target)
             at == {i \in 1..Len(groups) : settings_key(groups[i]) = key}
         IN  IF at = {}
             THEN Append(groups,
                         [entities |-> <<target.entity_id>>,
                          brightness_pct |-> target.brightness_pct,
                          rgb_color |-> target.rgb_color,
                          color_temp_kelvin |-> target.color_temp_kelvin,
                          effect |-> target.effect])
             ELSE [i \in 1..Len(groups) |->
                      IF i \in at
                      THEN [groups[i] EXCEPT !.entities = Append(@, target.entity_id)]
                      ELSE groups[i]]

\* the service data with any transition that is not None
to_service_data_any_transition(g, include_transition) ==
    ("brightness_pct" :> Int_(g.brightness_pct))
    @@ (IF g.rgb_color # None_ THEN ("rgb_color" :> g.rgb_color)
        ELSE IF g.color_temp_kelvin # None_
             THEN ("color_temp_kelvin" :> g.color_temp_kelvin)
             ELSE EmptyDict)
    @@ (IF g.effect # None_ THEN ("effect" :> g.effect) ELSE EmptyDict)
    @@ (IF include_transition # None_
        THEN ("transition" :> include_transition) ELSE EmptyDict)

\* the service data with both colours when both are set
to_service_data_both_colours(g, include_transition) ==
    ("brightness_pct" :> Int_(g.brightness_pct))
    @@ (IF g.rgb_color # None_ THEN ("rgb_color" :> g.rgb_color) ELSE EmptyDict)
    @@ (IF g.color_temp_kelvin # None_
        THEN ("color_temp_kelvin" :> g.color_temp_kelvin) ELSE EmptyDict)
    @@ (IF g.effect # None_ THEN ("effect" :> g.effect) ELSE EmptyDict)
    @@ (IF include_transition # None_ /\ include_transition.v > 0
        THEN ("transition" :> include_transition) ELSE EmptyDict)

\* LightSettingsMixin.to_service_data
to_service_data(g, include_transition) ==
    ("brightness_pct" :> Int_(g.brightness_pct))
    @@ (IF g.rgb_color # None_ THEN ("rgb_color" :> g.rgb_color)
        ELSE IF g.color_temp_kelvin # None_
             THEN ("color_temp_kelvin" :> g.color_temp_kelvin)
             ELSE EmptyDict)
    @@ (IF g.effect # None_ THEN ("effect" :> g.effect) ELSE EmptyDict)
    @@ (IF include_transition # None_ /\ include_transition.v > 0
        THEN ("transition" :> include_transition) ELSE EmptyDict)

\* ------------------------------------------------------------------------
\* Verification.  The helpers return "True", "False", "None" or "raise"
\* (an exception of the Python expression, caught in _verify_light).
\* ------------------------------------------------------------------------
\* Python truthiness of a tagged value
truthy(x) ==
    CASE x.t = "None" -> FALSE
      [] x.t = "int" -> x.v # 0
      [] x.t = "str" -> x.v # ""
      [] x.t = "list" -> x.v # <<>>

\* x or d
or_(x, d) == IF truthy(x) THEN x ELSE d

\* dict(state.attributes) if state else {}; a missing key reads as None_
NoAttributes ==
    [brightness |-> None_, rgb_color |-> None_, color_temp_kelvin |-> None_,
     color_temperature_kelvin |-> None_, supported_color_modes |-> None_,
     entity_id |-> <<>>]

attrs_of(st, entity_id) ==
    LET state == get_state(st, entity_id)
    IN  IF state # None_ THEN state.attributes ELSE NoAttributes

\* the percentage cut off, not rounded
round_pct_floor(raw) == (raw * 100) \div 255

\* round((raw / 255) * 100) for raw >= 0 (raw * 100 / 255 is never a tie)
round_pct(raw) == (raw * 200 + 255) \div 510

within(lo, x, hi) == lo <= x /\ x <= hi

\* a brightness that is not a number read as 0
verify_brightness_coerces(st, entity_id, expected_pct, tolerance) ==
    LET raw_brightness == or_(attrs_of(st, entity_id).brightness, Int_(0))
        raw == IF raw_brightness.t = "int" THEN raw_brightness.v ELSE 0
    IN  IF within(expected_pct - tolerance, round_pct(raw), expected_pct + tolerance)
        THEN "True" ELSE "False"

\* lines 340-362; raw_brightness / 255 raises TypeError on a str
verify_brightness(st, entity_id, expected_pct, tolerance) ==
    LET raw_brightness == or_(attrs_of(st, entity_id).brightness, Int_(0))
    IN  IF raw_brightness.t # "int" THEN "raise"
        ELSE IF within(expected_pct - tolerance, round_pct(raw_brightness.v),
                       expected_pct + tolerance)
             THEN "True" ELSE "False"

\* the zip loop of _verify_rgb over channels i..
RECURSIVE rgb_channels(_, _, _)
rgb_channels(expected, actual, tolerance) ==
    IF expected = <<>> \/ actual = <<>> THEN "True"
    ELSE IF actual[1].t # "int" THEN "raise"
    ELSE IF ~within(expected[1] - tolerance, actual[1].v, expected[1] + tolerance)
         THEN "False"
    ELSE rgb_channels(Tail(expected), Tail(actual), tolerance)

verify_rgb(st, entity_id, expected_rgb, tolerance) ==
    IF expected_rgb = None_ THEN "None"
    ELSE LET attrs == attrs_of(st, entity_id)
             supported_modes == or_(attrs.supported_color_modes, List_(<<>>))
             supports_rgb == COLOR_MODE_RGB \in Range(supported_modes.v)
                             \/ COLOR_MODE_HS \in Range(supported_modes.v)
             actual_rgb == attrs.rgb_color
         IN  IF ~supports_rgb THEN "None"
             ELSE IF ~truthy(actual_rgb) \/ actual_rgb.t # "list"
                     \/ Len(actual_rgb.v) # 3
                  THEN "False"
             ELSE rgb_channels(expected_rgb.v, actual_rgb.v, tolerance)

verify_kelvin(st, entity_id, expected_kelvin, tolerance) ==
    IF expected_kelvin = None_ THEN "None"
    ELSE LET attrs == attrs_of(st, entity_id)
             supported_modes == or_(attrs.supported_color_modes, List_(<<>>))
             actual_kelvin == or_(attrs.color_temp_kelvin, attrs.color_temperature_kelvin)
         IN  IF COLOR_MODE_COLOR_TEMP \notin Range(supported_modes.v) THEN "None"
             ELSE IF actual_kelvin = None_ THEN "False"
             ELSE IF actual_kelvin.t # "int" THEN "raise"
             ELSE IF within(expected_kelvin.v - tolerance, actual_kelvin.v,
                            expected_kelvin.v + tolerance)
                  THEN "True" ELSE "False"

\* the colour verdict that wants every requested check satisfied
verify_color_all(st, target, tolerances) ==
    LET has_rgb == target.rgb_color # None_
        has_kelvin == target.color_temp_kelvin # None_
        rgb_result == verify_rgb(st, target.entity_id, target.rgb_color, tolerances.rgb)
        kelvin_result == verify_kelvin(st, target.entity_id, target.color_temp_kelvin,
                                       tolerances.kelvin)
        rgb_ok == IF has_rgb THEN rgb_result # "False" ELSE TRUE
        kelvin_ok == IF has_kelvin THEN kelvin_result # "False" ELSE TRUE
    IN  IF ~has_rgb /\ ~has_kelvin THEN VR_SUCCESS
        ELSE IF rgb_result = "raise" \/ kelvin_result = "raise" THEN VR_ERROR
        ELSE IF rgb_ok /\ kelvin_ok THEN VR_SUCCESS
        ELSE VR_WRONG_COLOR

\* the colour part of _verify_light (lines 455-474)
verify_color(st, target, tolerances) ==
    LET has_rgb == target.rgb_color # None_
        has_kelvin == target.color_temp_kelvin # None_
        rgb_result == verify_rgb(st, target.entity_id, target.rgb_color, tolerances.rgb)
        kelvin_result == verify_kelvin(st, target.entity_id, target.color_temp_kelvin,
                                       tolerances.kelvin)
        rgb_ok == IF has_rgb THEN rgb_result # "False" ELSE TRUE
        kelvin_ok == IF has_kelvin THEN kelvin_result # "False" ELSE TRUE
    IN  IF ~has_rgb /\ ~has_kelvin THEN VR_SUCCESS
        ELSE IF rgb_result = "raise" \/ kelvin_result = "raise" THEN VR_ERROR
        ELSE IF rgb_ok \/ kelvin_ok THEN VR_SUCCESS
        ELSE VR_WRONG_COLOR

\* the verdict with the requested state looked at before availability
verify_light_state_first(st, target, target_state, tolerances) ==
    LET state == get_state(st, target.entity_id)
        brightness_ok == verify_brightness(st, target.entity_id, target.brightness_pct,
                                           tolerances.brightness)
    IN  IF state = None_ THEN VR_UNAVAILABLE
        ELSE IF target_state = OFF
             THEN (IF state.state = STATE_OFF THEN VR_SUCCESS ELSE VR_WRONG_STATE)
        ELSE IF state.state \in {STATE_UNAVAILABLE, STATE_UNKNOWN} THEN VR_UNAVAILABLE
        ELSE IF state.state # STATE_ON THEN VR_WRONG_STATE
        ELSE IF brightness_ok = "raise" THEN VR_ERROR
        ELSE IF brightness_ok = "False" THEN VR_WRONG_BRIGHTNESS
        ELSE verify_color(st, target, tolerances)

\* lines 423-478
verify_light(st, target, target_state, tolerances) ==
    LET state == get_state(st, target.entity_id)
        brightness_ok == verify_brightness(st, target.entity_id, target.brightness_pct,
                                           tolerances.brightness)
    IN  IF state = None_ \/ state.state \in {STATE_UNAVAILABLE, STATE_UNKNOWN}
        THEN VR_UNAVAILABLE
        ELSE IF target_state = OFF
             THEN (IF state.state = STATE_OFF THEN VR_SUCCESS ELSE VR_WRONG_STATE)
        ELSE IF state.state # STATE_ON THEN VR_WRONG_STATE
        ELSE IF brightness_ok = "raise" THEN VR_ERROR
        ELSE IF brightness_ok = "False" THEN VR_WRONG_BRIGHTNESS
        ELSE verify_color(st, target, tolerances)

\* ------------------------------------------------------------------------
\* RetryConfig.calculate_delay
\* ------------------------------------------------------------------------
RECURSIVE pow2(_)
pow2(n) == IF n = 0 THEN 1 ELSE 2 * pow2(n - 1)

\* the delay without the cap
calculate_delay_uncapped(retry_config, n) ==
    IF retry_config.use_exponential_backoff /\ n > 0
    THEN retry_config.delay_after_send * pow2(n)
    ELSE retry_config.delay_after_send

\* the backoff with max for min
calculate_delay_max(retry_config, n) ==
    IF retry_config.use_exponential_backoff /\ n > 0
    THEN Max(retry_config.delay_after_send * pow2(n), retry_config.max_backoff_seconds)
    ELSE retry_config.delay_after_send

\* RetryConfig.calculate_delay
calculate_delay(retry_config, n) ==
    IF retry_config.use_exponential_backoff /\ n > 0
    THEN Min(retry_config.delay_after_send * pow2(n), retry_config.max_backoff_seconds)
    ELSE retry_config.delay_after_send

\* ------------------------------------------------------------------------
\* OperationResult
\* ------------------------------------------------------------------------
OperationResult(success, result_code, attempts, total_lights, failed_lights, skipped_lights, elapsed_seconds) ==
    [success |-> success, result_code |-> result_code, attempts |-> attempts,
     total_lights |-> total_lights, failed_lights |-> failed_lights,
     skipped_lights |-> skipped_lights, elapsed_seconds |-> elapsed_seconds]

\* ------------------------------------------------------------------------
\* The entities, the state machine of Home Assistant and the requests
\* ------------------------------------------------------------------------
La == Id("light", "a")
Lb == Id("light", "b")
Gg == Id("group", "g")
Ss == Id("sensor", "s")
NotAStr == Int_(12345)

State(state, attributes) == [state |-> state, attributes |-> attributes]

LightState(state, brightness) ==
    State(state, [NoAttributes EXCEPT !.brightness = brightness])

\* what hass.states.get may return for a light
LightStates ==
    { None_,
      LightState(STATE_UNAVAILABLE, None_),
      LightState(STATE_UNKNOWN, None_),
      LightState(STATE_OFF, None_),
      LightState(STATE_ON, Int_(191)),
      LightState(STATE_ON, Int_(128)),
      LightState(STATE_ON, Str_("bad")) }

GroupState == State(STATE_ON, [NoAttributes EXCEPT !.entity_id = <<Lb, Ss, La>>])
SensorState == State("21.5", NoAttributes)

EntityLists ==
    { <<>>, <<La, Lb>>, <<Gg, NotAStr, La>>, <<Ss>> }

StateStrings ==
    { <<"O", "n">>, <<" ", "O", "F", "F", " ">>, <<"d", "i", "m">>, <<"o", " ", "n">> }

TargetLists ==
    { <<>>, << [entity_id |-> Lb, brightness_pct |-> 50] >> }

MaxRuntimes == {1, 6}
Transitions == {2}

Requests ==
    [ entities : EntityLists,
      state_target : StateStrings,
      default_brightness_pct : {75},
      default_rgb_color : {None_},
      default_color_temp_kelvin : {None_},
      default_effect : {None_},
      targets : TargetLists,
      brightness_tolerance : {3},
      rgb_tolerance : {10},
      kelvin_tolerance : {150},
      transition : Transitions,
      delay_after_send : {2},
      max_retries : {1, MaxRetries},       \* a single round, and the most rounds
      max_runtime_seconds : MaxRuntimes,
      use_exponential_backoff : BOOLEAN,
      max_backoff_seconds : {3},
      skip_verification : BOOLEAN,
      log_success : {FALSE} ]

\* ------------------------------------------------------------------------
\* State
\* ------------------------------------------------------------------------
VARIABLES
    args,               \* the arguments of the ensure_state call
    states,             \* hass.states
    now,                \* time.monotonic()
    service_calls,      \* the calls of hass.services.async_call, in order
    pc,                 \* position of the ensure_state coroutine
    script_start,
    target_state,
    members,
    skipped_entities,
    pending_targets,
    attempt,
    current_delay,
    use_transition,
    tasks,              \* the dispatch coroutines of the round in progress
    result,             \* the returned OperationResult
    sleeps,             \* history: the delays passed to asyncio.sleep
    dispatched,         \* history: the time _send_commands took in the latest round
    wake_at,            \* the loop time at which the asyncio.sleep of the round returns
    verified,           \* history: the entity ids verified in each round
    verdicts,           \* history: the verdicts of the latest verification
    found_unavailable,  \* history: ids that verified UNAVAILABLE
    send_raised,        \* history: a dispatch of the latest round raised
    previous,           \* history: the result of the previous ensure_state call
    other,              \* the ensure_state call suspended beside the running one, or None_
    presets,            \* PresetManager._presets
    status,             \* PresetManager._status
    entry_data,         \* entry.data[CONF_PRESETS], the persisted presets
    listeners,          \* PresetManager._listeners
    operation,          \* the PresetManager call in progress and its position
    invoked,            \* history: the listeners called by the latest notification
    returned,           \* history: what the latest PresetManager call returned
    handles,            \* history: the unsubscribe closures register_listener returned
    activation          \* the activate_preset handler awaiting ensure_state, or None_

vars ==
    << args, states, now, service_calls, pc, script_start, target_state, members,
       skipped_entities, pending_targets, attempt, current_delay, use_transition,
       tasks, result, sleeps, dispatched, wake_at, verified, verdicts, found_unavailable,
       send_raised,
       previous, other, presets, status, entry_data, listeners, operation, invoked, returned,
       handles, activation >>

env_vars == << states, now >>
local_vars ==
    << target_state, members, skipped_entities, pending_targets, attempt,
       current_delay, use_transition, tasks >>
hist_vars ==
    << sleeps, dispatched, wake_at, verified, verdicts, found_unavailable, send_raised >>
manager_vars ==
    << presets, status, entry_data, listeners, operation, invoked, returned, handles,
       activation >>
\* what lives outside one ensure_state call
outer_vars == << previous, other, manager_vars >>

\* PresetManager.__init__ with an entry that holds no presets, before any
\* call
ManagerAtRest ==
    /\ presets = EmptyDict
    /\ status = EmptyDict
    /\ entry_data = EmptyDict
    /\ listeners = <<>>
    /\ operation = None_
    /\ invoked = <<>>
    /\ returned = None_
    /\ handles = <<>>
    /\ activation = None_

ids_of(targets) == [i \in 1..Len(targets) |-> targets[i].entity_id]

tolerances ==
    [brightness |-> args.brightness_tolerance, rgb |-> args.rgb_tolerance,
     kelvin |-> args.kelvin_tolerance]

retry_config ==
    [max_retries |-> args.max_retries,
     delay_after_send |-> args.delay_after_send,
     max_runtime_seconds |-> args.max_runtime_seconds,
     use_exponential_backoff |-> args.use_exponential_backoff,
     max_backoff_seconds |-> args.max_backoff_seconds]

ServiceCall(domain, service, data) ==
    [domain |-> domain, service |-> service, data |-> data, attempt |-> attempt]

\* _log_to_logbook: the call is made, an exception of it is swallowed
log_to_logbook(calls) == Append(calls, ServiceCall("logbook", "log", EmptyDict))

Init ==
    /\ args \in Requests
    /\ states \in { s \in [{La, Lb, Gg, Ss} -> LightStates \cup {GroupState, SensorState}] :
                       /\ s[Gg] = GroupState
                       /\ s[Ss] = SensorState
                       /\ s[La] \in LightStates
                       /\ s[Lb] \in LightStates }
    /\ now = 0
    /\ script_start = 0
    /\ service_calls = <<>>
    /\ pc = "start"
    /\ target_state = "None"
    /\ members = <<>>
    /\ skipped_entities = <<>>
    /\ pending_targets = <<>>
    /\ attempt = 0
    /\ current_delay = 0
    /\ use_transition = None_
    /\ tasks = <<>>
    /\ result = None_
    /\ sleeps = <<>>
    /\ dispatched = 0
    /\ wake_at = 0
    /\ verified = <<>>
    /\ verdicts = EmptyDict
    /\ found_unavailable = {}
    /\ send_raised = FALSE
    /\ previous = None_
    /\ other = None_
    /\ ManagerAtRest

\* ------------------------------------------------------------------------
\* ensure_state, step by step
\* ------------------------------------------------------------------------
elapsed == now - script_start
elapsed_after == now' - script_start

Return(r) ==
    /\ result' = r
    /\ pc' = "done"

\* lines 580-596: input validation and TargetState.from_string
Validate ==
    /\ pc = "start"
    /\ IF args.entities = <<>>
       THEN /\ service_calls' = log_to_logbook(service_calls)
            /\ Return(OperationResult(FALSE, RESULT_CODE_ERROR, 0, 0, <<>>, <<>>, 0))
            /\ UNCHANGED target_state
       ELSE IF from_string(args.state_target) = ValueError
       THEN /\ Return(OperationResult(FALSE, RESULT_CODE_ERROR, 0, 0, <<>>, <<>>, 0))
            /\ UNCHANGED << service_calls, target_state >>
       ELSE IF from_string(args.state_target) = AttributeError
       THEN \* only ValueError is caught: the exception leaves ensure_state
            /\ pc' = "raised"
            /\ UNCHANGED << service_calls, target_state, result >>
       ELSE /\ target_state' = from_string(args.state_target)
            /\ pc' = "expand"
            /\ UNCHANGED << service_calls, result >>
    /\ UNCHANGED << args, env_vars, script_start, members, skipped_entities,
                    pending_targets, attempt, current_delay, use_transition, tasks,
                    hist_vars >>
    /\ UNCHANGED outer_vars

\* lines 612-650 and 677: entity expansion, overrides, targets
Expand ==
    /\ pc = "expand"
    /\ \E dt \in 0..1 : now' = Min(now + dt, MaxClock)
    /\ LET e == expand_entities(states, args.entities)
       IN  IF e.raised
           THEN /\ pc' = "raised"
                /\ UNCHANGED << service_calls, result, members, skipped_entities,
                                pending_targets >>
           ELSE IF Len(e.valid) = 0
           THEN /\ service_calls' = log_to_logbook(service_calls)
                /\ Return(OperationResult(FALSE, RESULT_CODE_NO_VALID_ENTITIES, 0, 0,
                                          <<>>, e.skipped, 0))
                /\ members' = e.valid
                /\ skipped_entities' = e.skipped
                /\ UNCHANGED pending_targets
           ELSE /\ members' = e.valid
                /\ skipped_entities' = e.skipped
                /\ pending_targets' =
                       build_targets(e.valid, build_overrides(args.targets),
                                     args.default_brightness_pct, args.default_rgb_color,
                                     args.default_color_temp_kelvin, args.default_effect)
                /\ pc' = IF args.skip_verification THEN "fire_and_forget" ELSE "loop"
                /\ UNCHANGED << service_calls, result >>
    /\ UNCHANGED << args, states, script_start, target_state, attempt, current_delay,
                    use_transition, tasks, hist_vars >>
    /\ UNCHANGED outer_vars

Task(service, data) == [service |-> service, data |-> data, status |-> "created"]

\* one turn_off per group of settings
send_commands_off_per_group(groups, tstate, transition) ==
    IF tstate = OFF
    THEN [i \in 1..Len(groups) |->
             Task("turn_off", ("entity_id" :> List_(groups[i].entities)))]
    ELSE [i \in 1..Len(groups) |->
             Task("turn_on",
                  to_service_data(groups[i], transition)
                  @@ ("entity_id" :> List_(groups[i].entities)))]

\* _send_commands: the coroutines it awaits, one turn_off for OFF and one
\* _send_turn_on per group, gathered, otherwise
send_commands(groups, tstate, transition) ==
    IF tstate = OFF
    THEN LET RECURSIVE all_entities(_)
             all_entities(gs) ==
                 IF gs = <<>> THEN <<>> ELSE gs[1].entities \o all_entities(Tail(gs))
         IN  << Task("turn_off", ("entity_id" :> List_(all_entities(groups)))) >>
    ELSE [i \in 1..Len(groups) |->
             Task("turn_on",
                  to_service_data(groups[i], transition)
                  @@ ("entity_id" :> List_(groups[i].entities)))]

\* lines 653-657
FireAndForget ==
    /\ pc = "fire_and_forget"
    /\ use_transition' = IF target_state = ON THEN Int_(args.transition) ELSE None_
    /\ tasks' = send_commands(group_by_settings(pending_targets), target_state,
                              use_transition')
    /\ pc' = "sending"
    /\ UNCHANGED << args, env_vars, service_calls, script_start, target_state, members,
                    skipped_entities, pending_targets, attempt, current_delay, result,
                    hist_vars >>
    /\ UNCHANGED outer_vars

\* the loop condition without the bound on the attempts
loop_condition_unbounded(pending, n, max_retries) == pending # <<>>

\* the loop condition with <= for <
loop_condition_le(pending, n, max_retries) == pending # <<>> /\ n <= max_retries

\* line 679: while pending_targets and attempt < retry_config.max_retries
loop_condition(pending, n, max_retries) == pending # <<>> /\ n < max_retries

\* the guard with > for >=
timeout_guard_strict(elapsed_seconds, max_runtime_seconds) ==
    elapsed_seconds > max_runtime_seconds

\* an iteration that never looks at the clock
timeout_guard_absent(elapsed_seconds, max_runtime_seconds) == FALSE

\* line 681: the timeout guard at the top of an iteration
timeout_guard(elapsed_seconds, max_runtime_seconds) ==
    elapsed_seconds >= max_runtime_seconds

\* only SUCCESS leaves the pending list
still_pending_unless_success(verdict) == verdict # VR_SUCCESS

\* only a wrong state keeps a target pending
still_pending_on_wrong_state(verdict) == verdict = VR_WRONG_STATE

\* lines 708-709: a target stays pending unless it verified SUCCESS or
\* UNAVAILABLE
still_pending(verdict) == verdict \notin {VR_SUCCESS, VR_UNAVAILABLE}

\* the filter applied to the targets of every resolved device
verify_and_filter_all(st, pending, tstate, tol) ==
    SelectSeq(build_targets(members, build_overrides(args.targets),
                            args.default_brightness_pct, args.default_rgb_color,
                            args.default_color_temp_kelvin, args.default_effect),
              LAMBDA target : still_pending(verify_light(st, target, tstate, tol)))

\* lines 705-710: still_pending, the pending targets that did not verify
verify_and_filter(st, pending, tstate, tol) ==
    SelectSeq(pending, LAMBDA target : still_pending(verify_light(st, target, tstate, tol)))

\* Results with TIMEOUT whenever a device is left pending
Results_TimeoutWhenPending ==
    /\ LET failed_entities == ids_of(pending_targets)
       IN  IF pending_targets # <<>>
           THEN /\ service_calls' = log_to_logbook(service_calls)
                /\ Return(OperationResult(FALSE, RESULT_CODE_TIMEOUT, attempt,
                                          Len(members), failed_entities,
                                          skipped_entities, elapsed))
           ELSE /\ service_calls' =
                       IF args.log_success THEN log_to_logbook(service_calls)
                       ELSE service_calls
                /\ Return(OperationResult(TRUE, RESULT_CODE_SUCCESS, attempt,
                                          Len(members), <<>>, skipped_entities, elapsed))

\* Results with the two failure branches in the other order
Results_FailedFirst ==
    /\ LET failed_entities == ids_of(pending_targets)
       IN  IF pending_targets # <<>>
           THEN /\ service_calls' = log_to_logbook(service_calls)
                /\ Return(OperationResult(FALSE, RESULT_CODE_FAILED, attempt,
                                          Len(members), failed_entities,
                                          skipped_entities, elapsed))
           ELSE /\ service_calls' = service_calls
                /\ Return(OperationResult(TRUE, RESULT_CODE_SUCCESS, attempt,
                                          Len(members), <<>>, skipped_entities, elapsed))

\* lines 721-782: the result of the verified path
Results ==
    /\ LET failed_entities == ids_of(pending_targets)
       IN  IF elapsed >= retry_config.max_runtime_seconds /\ pending_targets # <<>>
           THEN /\ service_calls' = log_to_logbook(service_calls)
                /\ Return(OperationResult(FALSE, RESULT_CODE_TIMEOUT, attempt,
                                          Len(members), failed_entities,
                                          skipped_entities, elapsed))
           ELSE IF pending_targets # <<>>
           THEN /\ service_calls' = log_to_logbook(service_calls)
                /\ Return(OperationResult(FALSE, RESULT_CODE_FAILED, attempt,
                                          Len(members), failed_entities,
                                          skipped_entities, elapsed))
           ELSE /\ service_calls' =
                       IF args.log_success THEN log_to_logbook(service_calls)
                       ELSE service_calls
                /\ Return(OperationResult(TRUE, RESULT_CODE_SUCCESS, attempt,
                                          Len(members), <<>>, skipped_entities, elapsed))

\* lines 679-700: the loop condition, the timeout guard, the delay and the
\* transition of the round, and the start of its dispatch; when the loop is
\* left, the result
LoopHead ==
    /\ pc = "loop"
    /\ IF /\ loop_condition(pending_targets, attempt, retry_config.max_retries)
          /\ ~timeout_guard(elapsed, retry_config.max_runtime_seconds)
       THEN /\ current_delay' = calculate_delay(retry_config, attempt)
            /\ use_transition' =
                   IF target_state = ON /\ attempt = 0 /\ args.transition > 0
                   THEN Int_(args.transition) ELSE None_
            /\ tasks' = send_commands(group_by_settings(pending_targets), target_state,
                                      use_transition')
            /\ verdicts' = EmptyDict
            /\ send_raised' = FALSE
            /\ pc' = "sending"
            /\ UNCHANGED << service_calls, result >>
       ELSE /\ Results
            /\ UNCHANGED << current_delay, use_transition, tasks, verdicts, send_raised >>
    /\ UNCHANGED << args, env_vars, script_start, target_state, members,
                    skipped_entities, pending_targets, attempt, sleeps, dispatched, wake_at,
                    verified,
                    found_unavailable >>
    /\ UNCHANGED outer_vars

\* _send_turn_off / _send_turn_on up to the await of async_call; the
\* coroutines of a gather start in the order they were passed
CallService(i) ==
    /\ pc = "sending"
    /\ tasks[i].status = "created"
    /\ \A j \in 1..(i - 1) : tasks[j].status # "created"
    /\ service_calls' =
           Append(service_calls, ServiceCall(LIGHT_DOMAIN, tasks[i].service, tasks[i].data))
    /\ tasks' = [tasks EXCEPT ![i].status = "called"]
    /\ UNCHANGED << args, env_vars, pc, script_start, target_state, members,
                    skipped_entities, pending_targets, attempt, current_delay,
                    use_transition, result, hist_vars >>
    /\ UNCHANGED outer_vars

\* async_call returns
ServiceReturns(i) ==
    /\ pc = "sending"
    /\ tasks[i].status = "called"
    /\ tasks' = [tasks EXCEPT ![i].status = "returned"]
    /\ UNCHANGED << args, env_vars, service_calls, pc, script_start, target_state, members,
                    skipped_entities, pending_targets, attempt, current_delay,
                    use_transition, result, hist_vars >>
    /\ UNCHANGED outer_vars

\* async_call raises and nothing catches the exception
ServiceRaises_Propagates(i) ==
    /\ pc = "sending"
    /\ tasks[i].status = "called"
    /\ tasks' = [tasks EXCEPT ![i].status = "raised"]
    /\ send_raised' = TRUE
    /\ pc' = "raised"
    /\ UNCHANGED << args, env_vars, service_calls, script_start, target_state, members,
                    skipped_entities, pending_targets, attempt, current_delay,
                    use_transition, result, sleeps, dispatched, wake_at, verified, verdicts,
                    found_unavailable >>
    /\ UNCHANGED outer_vars

\* async_call raises: lines 494-495 and 511-512 log the exception
ServiceRaises(i) ==
    /\ pc = "sending"
    /\ tasks[i].status = "called"
    /\ tasks' = [tasks EXCEPT ![i].status = "raised"]
    /\ send_raised' = TRUE
    /\ UNCHANGED << args, env_vars, service_calls, pc, script_start, target_state, members,
                    skipped_entities, pending_targets, attempt, current_delay,
                    use_transition, result, sleeps, dispatched, wake_at, verified, verdicts,
                    found_unavailable >>
    /\ UNCHANGED outer_vars

\* the gather taken as complete when its first coroutine is
any_sent == \E i \in 1..Len(tasks) : tasks[i].status \in {"returned", "raised"}

\* line 526: await asyncio.gather(*tasks) (line 523 for the one turn_off)
all_sent == \A i \in 1..Len(tasks) : tasks[i].status \in {"returned", "raised"}

\* the time the dispatch of a round has taken when _send_commands returns
DispatchTimes == 0..1

\* the fire-and-forget return counting the entities passed in
FireAndForgetReturn_CountsEntities ==
    /\ pc = "sending"
    /\ args.skip_verification
    /\ all_sent
    /\ \E dt \in DispatchTimes : now' = Min(now + dt, MaxClock)
    /\ service_calls' =
           IF args.log_success THEN log_to_logbook(service_calls) ELSE service_calls
    /\ Return(OperationResult(TRUE, RESULT_CODE_SUCCESS, 0, Len(args.entities), <<>>,
                              skipped_entities, elapsed_after))
    /\ tasks' = <<>>
    /\ UNCHANGED << args, states, script_start, target_state, members,
                    skipped_entities, pending_targets, attempt, current_delay,
                    use_transition, hist_vars >>
    /\ UNCHANGED outer_vars

\* lines 659-674: the return of the fire-and-forget path
FireAndForgetReturn ==
    /\ pc = "sending"
    /\ args.skip_verification
    /\ all_sent
    /\ \E dt \in DispatchTimes : now' = Min(now + dt, MaxClock)
    /\ service_calls' =
           IF args.log_success THEN log_to_logbook(service_calls) ELSE service_calls
    /\ Return(OperationResult(TRUE, RESULT_CODE_SUCCESS, 0, Len(members), <<>>,
                              skipped_entities, elapsed_after))
    /\ tasks' = <<>>
    /\ UNCHANGED << args, states, script_start, target_state, members,
                    skipped_entities, pending_targets, attempt, current_delay,
                    use_transition, hist_vars >>
    /\ UNCHANGED outer_vars

\* lines 700-702: _send_commands returns once every dispatch of the round
\* has completed, and asyncio.sleep(current_delay) is entered
Sleep ==
    /\ pc = "sending"
    /\ ~args.skip_verification
    /\ all_sent
    /\ \E dt \in DispatchTimes :
           /\ now' = Min(now + dt, MaxClock)
           /\ dispatched' = dt
           /\ wake_at' = Min(now' + current_delay, MaxClock)
    /\ sleeps' = Append(sleeps, current_delay)
    /\ tasks' = <<>>
    /\ pc' = "sleeping"
    /\ UNCHANGED << args, states, service_calls, script_start, target_state, members,
                    skipped_entities, pending_targets, attempt, current_delay,
                    use_transition, result, verified, verdicts, found_unavailable,
                    send_raised >>
    /\ UNCHANGED outer_vars

\* the state machine records a new state of a light while the coroutine
\* is suspended
StateChanged(entity_id, new_state) ==
    /\ pc = "sleeping"
    /\ states[entity_id] # new_state
    /\ states' = [states EXCEPT ![entity_id] = new_state]
    /\ UNCHANGED << args, now, service_calls, pc, script_start, local_vars, result,
                    hist_vars >>
    /\ UNCHANGED outer_vars

\* lines 702-719: asyncio.sleep returns after current_delay; verify and
\* filter, count the attempt
Verify ==
    /\ pc = "sleeping"
    /\ now' = Max(now, wake_at)
    /\ LET verdict(target) == verify_light(states, target, target_state, tolerances)
       IN  /\ pending_targets' =
                  verify_and_filter(states, pending_targets, target_state, tolerances)
           /\ verdicts' = [id \in Range(ids_of(pending_targets)) |->
                              verdict(CHOOSE t \in Range(pending_targets) : t.entity_id = id)]
           /\ found_unavailable' = found_unavailable \cup
                  {t.entity_id : t \in {x \in Range(pending_targets) :
                                            verdict(x) = VR_UNAVAILABLE}}
    /\ verified' = Append(verified, ids_of(pending_targets))
    /\ attempt' = attempt + 1
    /\ pc' = "loop"
    /\ UNCHANGED << args, states, service_calls, script_start, target_state, members,
                    skipped_entities, current_delay, use_transition, tasks, result,
                    sleeps, dispatched, wake_at, send_raised >>
    /\ UNCHANGED outer_vars

Next ==
    \/ Validate
    \/ Expand
    \/ FireAndForget
    \/ LoopHead
    \/ \E i \in 1..Len(tasks) : CallService(i)
    \/ \E i \in 1..Len(tasks) : ServiceReturns(i)
    \/ \E i \in 1..Len(tasks) : ServiceRaises(i)
    \/ FireAndForgetReturn
    \/ Sleep
    \/ \E entity_id \in {La, Lb} : \E new_state \in LightStates :
           StateChanged(entity_id, new_state)
    \/ Verify

Spec == Init /\ [][Next]_vars

\* ------------------------------------------------------------------------
\* _group_by_settings on its own: the pending targets of a round are
\* grouped, then some target leaves the pending list (as verification
\* makes it) and the rest is grouped again.  result holds the returned
\* groups.
\* ------------------------------------------------------------------------
Lc == Id("light", "c")

\* an ensure_state call with nothing to do, for the variables a run of a
\* single function does not use
NoRequest == CHOOSE r \in Requests : r.entities = <<>>

\* the variables of ensure_state at rest
CoroutineAtRest ==
    /\ now = 0
    /\ script_start = 0
    /\ service_calls = <<>>
    /\ members = <<>>
    /\ skipped_entities = <<>>
    /\ attempt = 0
    /\ current_delay = 0
    /\ use_transition = None_
    /\ tasks = <<>>
    /\ sleeps = <<>>
    /\ dispatched = 0
    /\ wake_at = 0
    /\ verified = <<>>
    /\ verdicts = EmptyDict
    /\ found_unavailable = {}
    /\ send_raised = FALSE
    /\ previous = None_
    /\ other = None_

LocalsAtRest == CoroutineAtRest /\ ManagerAtRest

AtRest == LocalsAtRest /\ target_state = "None"

rest_vars ==
    << now, service_calls, script_start, target_state, members, skipped_entities,
       attempt, current_delay, use_transition, tasks, hist_vars, outer_vars >>

Red == List_(<<255, 0, 0>>)

SettingsChoices ==
    [brightness_pct : {50, 75}, rgb_color : {None_, Red},
     color_temp_kelvin : {None_, Int_(4000)}, effect : {None_, Str_("rainbow")}]

TargetOf(entity_id, c) ==
    LightTarget(entity_id, c.brightness_pct, c.rgb_color, c.color_temp_kelvin, c.effect)

GroupInit ==
    /\ AtRest
    /\ args = NoRequest
    /\ states = [e \in {La, Lb, Gg, Ss} |-> None_]
    /\ pending_targets \in
           {<< TargetOf(La, a), TargetOf(Lb, b), TargetOf(Lc, c) >> :
                a \in SettingsChoices, b \in SettingsChoices, c \in SettingsChoices}
    /\ result = None_
    /\ pc = "group"

\* line 699: groups = self._group_by_settings(pending_targets)
GroupBySettings ==
    /\ pc = "group"
    /\ result' = group_by_settings(pending_targets)
    /\ pc' = "grouped"
    /\ UNCHANGED << args, states, pending_targets, rest_vars >>

\* line 718: a target leaves the pending list
TargetLeaves(i) ==
    /\ pc = "grouped"
    /\ pending_targets' = SubSeq(pending_targets, 1, i - 1)
                              \o SubSeq(pending_targets, i + 1, Len(pending_targets))
    /\ result' = None_
    /\ pc' = "group"
    /\ UNCHANGED << args, states, rest_vars >>

GroupNext ==
    \/ GroupBySettings
    \/ \E i \in 1..Len(pending_targets) : TargetLeaves(i)

GroupSpec == GroupInit /\ [][GroupNext]_vars


\* ------------------------------------------------------------------------
\* ensure_state called with and without a transition, on two lights
\* ------------------------------------------------------------------------
TransitionRequests ==
    {[r EXCEPT !.transition = t] :
         r \in {q \in Requests :
                    /\ q.entities = <<La, Lb>>
                    /\ q.state_target \in {<<"O", "n">>, <<" ", "O", "F", "F", " ">>}
                    /\ q.max_runtime_seconds = 6
                    /\ ~q.use_exponential_backoff},
         t \in {0, 2}}

TransitionInit ==
    /\ AtRest
    /\ args \in TransitionRequests
    /\ states \in {st \in [{La, Lb, Gg, Ss} -> LightStates \cup {GroupState, SensorState}] :
                       /\ st[Gg] = GroupState
                       /\ st[Ss] = SensorState
                       /\ st[La] \in LightStates
                       /\ st[Lb] \in LightStates}
    /\ pending_targets = <<>>
    /\ result = None_
    /\ pc = "start"

TransitionSpec == TransitionInit /\ [][Next]_vars


\* ------------------------------------------------------------------------
\* _expand_entities and _expand_entity on their own.  light.lg is a light
\* group (a light with a member list), group.g a group helper whose
\* members include a sensor, the light group and a light twice,
\* group.missing a reference without a state record.  result holds the
\* returned (valid, skipped).
\* ------------------------------------------------------------------------
Lg == Id("light", "lg")
Gm == Id("group", "missing")

ExpandEntityIds == {La, Lb, Lg, Gg, Ss, Gm}

LightGroupState(state) == State(state, [NoAttributes EXCEPT !.entity_id = <<La, Lb>>])

SingleLightStates ==
    {None_, LightState(STATE_UNAVAILABLE, None_), LightState(STATE_UNKNOWN, None_),
     LightState(STATE_OFF, None_), LightState(STATE_ON, Int_(191))}

ExpandStates ==
    {[e \in ExpandEntityIds |->
         CASE e = La -> a
           [] e = Lb -> b
           [] e = Lg -> LightGroupState(g)
           [] e = Gg -> State(STATE_ON, [NoAttributes EXCEPT !.entity_id = <<Lb, Ss, Lg, La, Lb>>])
           [] e = Ss -> SensorState
           [] e = Gm -> None_] :
         a \in SingleLightStates, b \in SingleLightStates,
         g \in {STATE_ON, STATE_UNAVAILABLE}}

References == ExpandEntityIds \cup {NotAStr}

ReferenceLists ==
    {<<>>} \cup {<<a>> : a \in References}
           \cup {<<a, b>> : a \in References, b \in References}
           \cup {<<a, b, c>> : a \in References, b \in References, c \in {La, Lg, Gg}}

ExpandInit ==
    /\ AtRest
    /\ args \in {[NoRequest EXCEPT !.entities = refs] : refs \in ReferenceLists}
    /\ states \in ExpandStates
    /\ pending_targets = <<>>
    /\ result = None_
    /\ pc = "expand"

\* line 613: members, skipped_entities = self._expand_entities(list(entities))
ExpandEntities ==
    /\ pc = "expand"
    /\ result' = expand_entities(states, args.entities)
    /\ pc' = "expanded"
    /\ UNCHANGED << args, states, pending_targets, rest_vars >>

\* line 261: valid, skipped = self._expand_entity(entity_id), first reference
ExpandEntity ==
    /\ pc = "expand"
    /\ args.entities # <<>>
    /\ result' = expand_entity(states, args.entities[1])
    /\ pc' = "expanded_one"
    /\ UNCHANGED << args, states, pending_targets, rest_vars >>

ExpandNext == ExpandEntities \/ ExpandEntity

ExpandSpec == ExpandInit /\ [][ExpandNext]_vars


\* ------------------------------------------------------------------------
\* _verify_light and _verify_brightness on their own, for one light.
\* pending_targets holds the target, target_state the requested state and
\* result the returned value.
\* ------------------------------------------------------------------------
VerifyAttributes ==
    {[NoAttributes EXCEPT !.brightness = b, !.supported_color_modes = m,
                          !.rgb_color = c, !.color_temp_kelvin = k,
                          !.color_temperature_kelvin = k2] :
         b \in {None_, Int_(128), Int_(183), Int_(191), Int_(199), Int_(201),
                Str_("bad")},
         m \in {None_, List_(<<COLOR_MODE_RGB>>), List_(<<COLOR_MODE_COLOR_TEMP>>),
                List_(<<COLOR_MODE_HS, COLOR_MODE_COLOR_TEMP>>)},
         c \in {None_, List_(<<Int_(245), Int_(10), Int_(0)>>),
                List_(<<Int_(244), Int_(0), Int_(0)>>), List_(<<Int_(255), Int_(0)>>)},
         k \in {None_, Int_(4150), Int_(4151)},
         k2 \in {None_, Int_(4000)}}

VerifyStates ==
    {None_, State(STATE_UNAVAILABLE, NoAttributes), State(STATE_UNKNOWN, NoAttributes)}
        \cup {State(s, a) : s \in {STATE_OFF, STATE_ON}, a \in VerifyAttributes}

VerifyTargets ==
    {LightTarget(La, b, c, k, None_) :
         b \in {50, 75}, c \in {None_, Red}, k \in {None_, Int_(4000)}}

VerifyInit ==
    /\ LocalsAtRest
    /\ args = NoRequest
    /\ target_state \in {ON, OFF}
    /\ states \in {[e \in {La} |-> st] : st \in VerifyStates}
    /\ pending_targets \in {<<t>> : t \in VerifyTargets}
    /\ result = None_
    /\ pc = "verify"

\* lines 705-710: self._verify_light(target, target_state, tolerances)
VerifyLight ==
    /\ pc = "verify"
    /\ result' = verify_light(states, pending_targets[1], target_state, tolerances)
    /\ pc' = "verified"
    /\ UNCHANGED << args, states, pending_targets, rest_vars >>

\* lines 450-452: self._verify_brightness(entity_id, target.brightness_pct,
\* tolerances.brightness), reached for an ON target and a light that is on
VerifyBrightness ==
    /\ pc = "verify"
    /\ target_state = ON
    /\ states[La] # None_ /\ states[La].state = STATE_ON
    /\ result' = verify_brightness(states, La, pending_targets[1].brightness_pct,
                                   tolerances.brightness)
    /\ pc' = "verified_brightness"
    /\ UNCHANGED << args, states, pending_targets, rest_vars >>

VerifyNext == VerifyLight \/ VerifyBrightness

VerifySpec == VerifyInit /\ [][VerifyNext]_vars


\* ------------------------------------------------------------------------
\* RetryConfig.calculate_delay on its own, and ensure_state on one light
\* with the delays it sleeps.  In the first, attempt holds the argument and
\* result the returned delay.
\* ------------------------------------------------------------------------
MaxAttempt == 5

DelayConfigs ==
    {[NoRequest EXCEPT !.delay_after_send = d, !.max_backoff_seconds = m,
                       !.use_exponential_backoff = b] :
         d \in 1..3, m \in {2, 3, 10}, b \in BOOLEAN}

DelayRequests ==
    {[r EXCEPT !.entities = <<La>>, !.delay_after_send = d] :
         r \in {q \in Requests :
                    /\ q.entities = <<La, Lb>>
                    /\ q.targets = <<>>
                    /\ q.state_target = <<"O", "n">>
                    /\ q.max_runtime_seconds = 6},
         d \in {1, 4}}         \* below and above max_backoff_seconds

DelayInit ==
    /\ now = 0
    /\ script_start = 0
    /\ service_calls = <<>>
    /\ target_state = "None"
    /\ members = <<>>
    /\ skipped_entities = <<>>
    /\ current_delay = 0
    /\ use_transition = None_
    /\ tasks = <<>>
    /\ sleeps = <<>>
    /\ dispatched = 0
    /\ wake_at = 0
    /\ verified = <<>>
    /\ verdicts = EmptyDict
    /\ found_unavailable = {}
    /\ send_raised = FALSE
    /\ previous = None_
    /\ other = None_
    /\ ManagerAtRest
    /\ pending_targets = <<>>
    /\ result = None_
    /\ \/ /\ pc = "delay"
          /\ args \in DelayConfigs
          /\ attempt \in 0..MaxAttempt
          /\ states = [e \in {La, Lb, Gg, Ss} |-> None_]
       \/ /\ pc = "start"
          /\ args \in DelayRequests
          /\ attempt = 0
          /\ states \in {[e \in {La, Lb, Gg, Ss} |->
                             CASE e = La -> a
                               [] e = Lb -> None_
                               [] e = Gg -> GroupState
                               [] e = Ss -> SensorState] :
                            a \in LightStates}

\* line 685: current_delay = retry_config.calculate_delay(attempt)
CalculateDelay ==
    /\ pc = "delay"
    /\ result' = calculate_delay(retry_config, attempt)
    /\ pc' = "delayed"
    /\ UNCHANGED << args, states, pending_targets, rest_vars >>

DelayNext == CalculateDelay \/ Next

DelaySpec == DelayInit /\ [][DelayNext]_vars


\* ------------------------------------------------------------------------
\* The overrides dict and _build_targets on their own.  members holds the
\* resolved lights and args.targets the per-device overrides; the targets
\* built are left in pending_targets.
\* ------------------------------------------------------------------------
Blue == List_(<<0, 0, 255>>)

\* what an override says besides its entity_id
OverrideFields ==
    { EmptyDict,
      "brightness_pct" :> 50,
      "rgb_color" :> Red,
      "rgb_color" :> None_,
      "color_temp_kelvin" :> Int_(3000),
      "color_temperature_kelvin" :> Int_(2700),
      ("color_temp_kelvin" :> Int_(3000)) @@ ("color_temperature_kelvin" :> Int_(2700)),
      "effect" :> Str_("rainbow"),
      "state" :> Str_("off"),
      ("state" :> Str_("off")) @@ ("transition" :> Int_(3)),
      ("brightness_pct" :> 50) @@ ("rgb_color" :> Red)
          @@ ("color_temp_kelvin" :> Int_(3000)) @@ ("effect" :> Str_("rainbow")) }

Overrides ==
    {("entity_id" :> e) @@ f : e \in {La, Lb}, f \in OverrideFields}
        \cup {"brightness_pct" :> 10}

OverrideLists ==
    {<<>>} \cup {<<a>> : a \in Overrides} \cup {<<a, b>> : a \in Overrides, b \in Overrides}

BuildInit ==
    /\ now = 0
    /\ script_start = 0
    /\ service_calls = <<>>
    /\ target_state = ON
    /\ skipped_entities = <<>>
    /\ attempt = 0
    /\ current_delay = 0
    /\ use_transition = None_
    /\ tasks = <<>>
    /\ sleeps = <<>>
    /\ dispatched = 0
    /\ wake_at = 0
    /\ verified = <<>>
    /\ verdicts = EmptyDict
    /\ found_unavailable = {}
    /\ send_raised = FALSE
    /\ previous = None_
    /\ other = None_
    /\ ManagerAtRest
    /\ args \in {[NoRequest EXCEPT !.entities = m, !.targets = t,
                                   !.default_rgb_color = c,
                                   !.default_color_temp_kelvin = k] :
                    m \in {<<La, Lb>>, <<Lb, La, Lc>>}, t \in OverrideLists,
                    c \in {None_, Blue}, k \in {None_, Int_(4000)}}
    /\ members = args.entities
    /\ states = [e \in {La, Lb, Gg, Ss} |-> None_]
    /\ pending_targets = <<>>
    /\ result = None_
    /\ pc = "build"

\* lines 635-650: the overrides dict, then self._build_targets(...)
BuildTargets ==
    /\ pc = "build"
    /\ pending_targets' =
           build_targets(members, build_overrides(args.targets),
                         args.default_brightness_pct, args.default_rgb_color,
                         args.default_color_temp_kelvin, args.default_effect)
    /\ pc' = "built"
    /\ UNCHANGED << args, states, result, rest_vars >>

BuildSpec == BuildInit /\ [][BuildTargets]_vars


\* ------------------------------------------------------------------------
\* One round for one light that is on: the ON command built for its
\* target, then its verification.  tasks holds the dispatch built and
\* result the verdict.
\* ------------------------------------------------------------------------
PayloadStates ==
    {State(STATE_ON,
           [NoAttributes EXCEPT !.brightness = b, !.supported_color_modes = m,
                                !.rgb_color = c, !.color_temp_kelvin = k]) :
         b \in {Int_(128), Int_(191)},
         m \in {List_(<<COLOR_MODE_RGB>>), List_(<<COLOR_MODE_HS, COLOR_MODE_COLOR_TEMP>>)},
         c \in {List_(<<Int_(245), Int_(10), Int_(0)>>), List_(<<Int_(244), Int_(0), Int_(0)>>)},
         k \in {Int_(4150), Int_(4151)}}

PayloadInit ==
    /\ LocalsAtRest
    /\ args \in {[NoRequest EXCEPT !.transition = t] : t \in {0, 2}}
    /\ target_state = ON
    /\ states \in {[e \in {La} |-> st] : st \in PayloadStates}
    /\ pending_targets \in {<< TargetOf(La, c) >> : c \in SettingsChoices}
    /\ result = None_
    /\ pc = "send"

\* lines 695-700: use_transition, groups, self._send_commands(...)
SendCommands ==
    /\ pc = "send"
    /\ use_transition' =
           IF target_state = ON /\ attempt = 0 /\ args.transition > 0
           THEN Int_(args.transition) ELSE None_
    /\ tasks' = send_commands(group_by_settings(pending_targets), target_state,
                              use_transition')
    /\ pc' = "verify"
    /\ UNCHANGED << args, states, pending_targets, result, now, service_calls,
                    script_start, target_state, members, skipped_entities, attempt,
                    current_delay, hist_vars, outer_vars >>

PayloadNext == SendCommands \/ VerifyLight

PayloadSpec == PayloadInit /\ [][PayloadNext]_vars


\* ------------------------------------------------------------------------
\* ensure_state called twice in a row with the same arguments, while the
\* reported states do not change.  The controller holds nothing but hass,
\* so the second call starts from the state of the first; previous keeps
\* what the first call returned.
\* ------------------------------------------------------------------------
AgainRequests ==
    {r \in Requests :
         /\ r.entities \in {<<La, Lb>>, <<Gg, NotAStr, La>>}
         /\ r.state_target \in {<<"O", "n">>, <<" ", "O", "F", "F", " ">>}
         /\ ~r.use_exponential_backoff}

AgainInit ==
    /\ AtRest
    /\ args \in AgainRequests
    /\ states \in {[e \in {La, Lb, Gg, Ss} |->
                       CASE e = La -> a
                         [] e = Lb -> b
                         [] e = Gg -> GroupState
                         [] e = Ss -> SensorState] :
                      a \in LightStates, b \in LightStates}
    /\ pending_targets = <<>>
    /\ result = None_
    /\ pc = "start"

\* the second call with the attempt counter of the first
InvokeAgain_KeepsAttempt ==
    /\ pc = "done"
    /\ previous = None_
    /\ previous' = result
    \* line 574: script_start = monotonic(); the clock is read from the entry
    \* of the new call
    /\ now' = 0
    /\ script_start' = 0
    /\ service_calls' = <<>>
    /\ pc' = "start"
    /\ target_state' = "None"
    /\ members' = <<>>
    /\ skipped_entities' = <<>>
    /\ pending_targets' = <<>>
    /\ attempt' = attempt
    /\ current_delay' = 0
    /\ use_transition' = None_
    /\ tasks' = <<>>
    /\ result' = None_
    /\ sleeps' = <<>>
    /\ dispatched' = 0
    /\ wake_at' = 0
    /\ verified' = <<>>
    /\ verdicts' = EmptyDict
    /\ found_unavailable' = {}
    /\ send_raised' = FALSE
    /\ UNCHANGED << args, states, other, manager_vars >>

\* the entry of the second call: lines 574-677, every local is fresh
InvokeAgain ==
    /\ pc = "done"
    /\ previous = None_
    /\ previous' = result
    \* line 574: script_start = monotonic(); the clock is read from the entry
    \* of the new call
    /\ now' = 0
    /\ script_start' = 0
    /\ service_calls' = <<>>
    /\ pc' = "start"
    /\ target_state' = "None"
    /\ members' = <<>>
    /\ skipped_entities' = <<>>
    /\ pending_targets' = <<>>
    /\ attempt' = 0
    /\ current_delay' = 0
    /\ use_transition' = None_
    /\ tasks' = <<>>
    /\ result' = None_
    /\ sleeps' = <<>>
    /\ dispatched' = 0
    /\ wake_at' = 0
    /\ verified' = <<>>
    /\ verdicts' = EmptyDict
    /\ found_unavailable' = {}
    /\ send_raised' = FALSE
    /\ UNCHANGED << args, states, other, manager_vars >>

AgainNext ==
    \/ Validate
    \/ Expand
    \/ FireAndForget
    \/ LoopHead
    \/ \E i \in 1..Len(tasks) : CallService(i)
    \/ \E i \in 1..Len(tasks) : ServiceReturns(i)
    \/ \E i \in 1..Len(tasks) : ServiceRaises(i)
    \/ FireAndForgetReturn
    \/ Sleep
    \/ Verify
    \/ InvokeAgain

AgainSpec == AgainInit /\ [][AgainNext]_vars


\* ------------------------------------------------------------------------
\* ensure_state under the scheduling of the event loop: a coroutine that
\* can run is run, every dispatch call returns or raises and every sleep
\* ends.  The state machine may record new states for ever.
\* ------------------------------------------------------------------------
Progress ==
    \/ Validate
    \/ Expand
    \/ FireAndForget
    \/ LoopHead
    \/ \E i \in 1..Len(tasks) : CallService(i)
    \/ \E i \in 1..Len(tasks) : ServiceReturns(i)
    \/ \E i \in 1..Len(tasks) : ServiceRaises(i)
    \/ FireAndForgetReturn
    \/ Sleep
    \/ Verify

\* the controller before a call
LiveInit ==
    /\ AtRest
    /\ args = NoRequest
    /\ states = [e \in {La, Lb, Gg, Ss} |-> None_]
    /\ pending_targets = <<>>
    /\ result = None_
    /\ pc = "idle"

\* what the two lights may report during the call
LiveLightStates ==
    {LightState(STATE_UNAVAILABLE, None_), LightState(STATE_OFF, None_),
     LightState(STATE_ON, Int_(191))}

\* a call of ensure_state arrives, with the states of that moment
Invoke ==
    /\ pc = "idle"
    /\ args' \in {r \in TransitionRequests : r.targets = <<>> /\ r.transition = 2}
    /\ states' \in {[e \in {La, Lb, Gg, Ss} |->
                        CASE e = La -> a
                          [] e = Lb -> b
                          [] e = Gg -> GroupState
                          [] e = Ss -> SensorState] :
                       a \in LiveLightStates, b \in LiveLightStates}
    /\ pc' = "start"
    /\ UNCHANGED << pending_targets, result, rest_vars >>

LiveNext ==
    \/ Invoke
    \/ Progress
    \/ \E entity_id \in {La, Lb} : \E new_state \in LiveLightStates :
           StateChanged(entity_id, new_state)

LiveSpec == LiveInit /\ [][LiveNext]_vars /\ WF_vars(Progress)


\* ------------------------------------------------------------------------
\* ensure_state called with arguments the service schema would refuse: a
\* state argument that is not a str, and a group whose entity_id attribute
\* holds a member that is not a str.
\* ------------------------------------------------------------------------
MalformedGroupState ==
    State(STATE_ON, [NoAttributes EXCEPT !.entity_id = <<Lb, NotAStr, La>>])

FaultRequests ==
    {[r EXCEPT !.entities = e, !.state_target = s] :
         r \in {q \in TransitionRequests : q.targets = <<>> /\ q.transition = 2},
         e \in {<<La, Lb>>, <<Gg, La>>},
         s \in {<<"O", "n">>, NotAString}}

FaultInit ==
    /\ AtRest
    /\ args \in FaultRequests
    /\ states \in {[e \in {La, Lb, Gg, Ss} |->
                       CASE e = La -> a
                         [] e = Lb -> b
                         [] e = Gg -> g
                         [] e = Ss -> SensorState] :
                      a \in LiveLightStates, b \in LiveLightStates,
                      g \in {GroupState, MalformedGroupState}}
    /\ pending_targets = <<>>
    /\ result = None_
    /\ pc = "start"

FaultNext ==
    \/ Progress
    \/ \E entity_id \in {La, Lb} : \E new_state \in LiveLightStates :
           StateChanged(entity_id, new_state)

FaultSpec == FaultInit /\ [][FaultNext]_vars


\* ------------------------------------------------------------------------
\* PresetManager (preset_manager.py): presets, their runtime status, and
\* the listeners notified of changes.  Its coroutines never suspend between
\* their first and last statement (the listeners are plain callables), so
\* one call is one step.
\* ------------------------------------------------------------------------
PRESET_STATUS_IDLE == "idle"
PRESET_STATUS_ACTIVATING == "activating"
PRESET_STATUS_SUCCESS == "success"
PRESET_STATUS_FAILED == "failed"

MaxListeners == 2
PresetIds == {"p1"}

\* lines 60-75: the fields create_preset_from_current leaves at their
\* defaults keep them
PresetConfig(id, name, entities, state, targets) ==
    [id |-> id, name |-> name, entities |-> entities, state |-> state,
     brightness_pct |-> 100, rgb_color |-> None_, color_temp_kelvin |-> None_,
     effect |-> None_, targets |-> targets, transition |-> 0,
     skip_verification |-> FALSE]

\* lines 93-107: the dict stored for a preset, keyed by PRESET_ID ...
\* PRESET_SKIP_VERIFICATION
to_dict(preset) ==
    ("id" :> preset.id) @@ ("name" :> preset.name) @@ ("entities" :> preset.entities)
    @@ ("state" :> preset.state) @@ ("brightness_pct" :> preset.brightness_pct)
    @@ ("rgb_color" :> preset.rgb_color)
    @@ ("color_temp_kelvin" :> preset.color_temp_kelvin) @@ ("effect" :> preset.effect)
    @@ ("targets" :> preset.targets) @@ ("transition" :> preset.transition)
    @@ ("skip_verification" :> preset.skip_verification)

\* lines 150-152 of _save_presets
presets_data(ps) == [preset_id \in DOMAIN ps |-> to_dict(ps[preset_id])]

\* the preset the config entry may hold at start
Evening == PresetConfig("p1", "Evening", << La, Lb >>, << "o", "n" >>, <<>>)

PresetStatus(st, last_result, last_activated) ==
    [status |-> st, last_result |-> last_result, last_activated |-> last_activated]

\* the callables registered as listeners, named after what they do when
\* called: return, raise, unsubscribe themselves, unsubscribe "quiet",
\* register "late"
Listeners == {"quiet", "faulty", "leaver", "remover", "registrar"}

\* list.remove: the first occurrence
RECURSIVE list_remove(_, _)
list_remove(ls, x) ==
    IF ls = <<>> THEN <<>>
    ELSE IF ls[1] = x THEN Tail(ls)
    ELSE << ls[1] >> \o list_remove(Tail(ls), x)

\* lines 173-182
register_listener(ls, listener) == Append(ls, listener)

\* every registration of the callable removed, not the first one only
unsubscribe_every(ls, listener) == SelectSeq(ls, LAMBDA x : x # listener)

\* lines 178-180: the closure register_listener returns
unsubscribe(ls, listener) ==
    IF listener \in Range(ls) THEN list_remove(ls, listener) ELSE ls

\* listener(): what the call leaves of self._listeners, and whether it raises
call_listener(listener, ls) ==
    CASE listener = "faulty" -> [listeners |-> ls, raised |-> TRUE]
      [] listener = "leaver" ->
             [listeners |-> unsubscribe(ls, "leaver"), raised |-> FALSE]
      [] listener = "remover" ->
             [listeners |-> unsubscribe(ls, "quiet"), raised |-> FALSE]
      [] listener = "registrar" ->
             [listeners |-> register_listener(ls, "late"), raised |-> FALSE]
      [] OTHER -> [listeners |-> ls, raised |-> FALSE]

\* the loop over the live list: position i of whatever the list holds now
RECURSIVE notify_live(_, _, _, _)
notify_live(snapshot, i, ls, inv) ==
    IF i > Len(ls)
    THEN [listeners |-> ls, invoked |-> inv, raised |-> FALSE]
    ELSE LET r == call_listener(ls[i], ls)
         IN  notify_live(snapshot, i + 1, r.listeners, Append(inv, ls[i]))

\* the loop without its try/except: the first exception leaves it
RECURSIVE notify_unguarded(_, _, _, _)
notify_unguarded(snapshot, i, ls, inv) ==
    IF i > Len(snapshot)
    THEN [listeners |-> ls, invoked |-> inv, raised |-> FALSE]
    ELSE LET r == call_listener(snapshot[i], ls)
         IN  IF r.raised
             THEN [listeners |-> r.listeners, invoked |-> Append(inv, snapshot[i]),
                   raised |-> TRUE]
             ELSE notify_unguarded(snapshot, i + 1, r.listeners,
                                   Append(inv, snapshot[i]))

\* lines 167-171: the loop of _notify_listeners from position i of the
\* snapshot on; an Exception of a listener is logged
RECURSIVE notify_loop(_, _, _, _)
notify_loop(snapshot, i, ls, inv) ==
    IF i > Len(snapshot)
    THEN [listeners |-> ls, invoked |-> inv, raised |-> FALSE]
    ELSE LET r == call_listener(snapshot[i], ls)
         IN  notify_loop(snapshot, i + 1, r.listeners, Append(inv, snapshot[i]))

\* _notify_listeners: listeners_snapshot = list(self._listeners)
notify_listeners(ls) == notify_loop(ls, 1, ls, <<>>)

\* how a call ended
Returns(value) == [t |-> "return", v |-> value]
Raises == [t |-> "raise"]

Outcome(n, value) == IF n.raised THEN Raises ELSE Returns(value)

\* the last call made on the manager, with the listener list it found;
\* preset_id and value are None_, Str_ or Int_
Call(name, preset_id, value) ==
    [name |-> name, preset_id |-> preset_id, value |-> value, snapshot |-> listeners]

\* an exception of the entity registry during the cleanup of delete_preset
RegistryError == Str_("registry error")

controller_vars ==
    << args, states, pending_targets, result, pc, previous, other, now, service_calls,
       script_start, target_state, members, skipped_entities, attempt, current_delay,
       use_transition, tasks, hist_vars >>

\* lines 117-145: the manager loads the presets of the config entry
ManagerInit ==
    /\ CoroutineAtRest
    /\ target_state = "None"
    /\ args = NoRequest
    /\ states = [e \in {La, Lb, Gg, Ss} |-> None_]
    /\ pending_targets = <<>>
    /\ result = None_
    /\ pc = "idle"
    /\ presets \in {EmptyDict, ("p1" :> Evening)}
    /\ entry_data = presets_data(presets)
    /\ status = [k \in DOMAIN presets |-> PresetStatus(PRESET_STATUS_IDLE, None_, None_)]
    /\ listeners = <<>>
    /\ operation = None_
    /\ invoked = <<>>
    /\ returned = None_
    /\ handles = <<>>
    /\ activation = None_

\* lines 174-182; the closure returned is the next of handles, and at most
\* MaxListeners calls are made
RegisterListener(listener) ==
    /\ Len(handles) < MaxListeners
    /\ listeners' = register_listener(listeners, listener)
    /\ handles' = Append(handles, [listener |-> listener, called |-> FALSE])
    /\ operation' = Call("register_listener", None_, Str_(listener))
    /\ invoked' = <<>>
    /\ returned' = Returns([unsubscribe |-> Len(handles) + 1])
    /\ UNCHANGED << presets, status, entry_data, activation, controller_vars >>

\* lines 178-180: the closure handles[k] is called
Unsubscribe(k) ==
    /\ listeners' = unsubscribe(listeners, handles[k].listener)
    /\ handles' = [handles EXCEPT ![k].called = TRUE]
    /\ operation' = Call("unsubscribe", None_, Int_(k))
    /\ invoked' = <<>>
    /\ returned' = Returns(None_)
    /\ UNCHANGED << presets, status, entry_data, activation, controller_vars >>

\* lines 209-227
\* lines 215-224: the status map set_status leaves
set_status(statuses, preset_id, st, res) ==
    LET old == dict_get(statuses, preset_id, PresetStatus(PRESET_STATUS_IDLE, None_, None_))
        new == PresetStatus(st,
                            IF res # None_ THEN res ELSE old.last_result,
                            IF st \in {PRESET_STATUS_SUCCESS, PRESET_STATUS_FAILED}
                            THEN Str_("now") ELSE old.last_activated)
    IN  (preset_id :> new) @@ statuses

\* lines 209-227
SetStatus(preset_id, st, res) ==
    /\ Len(listeners) <= MaxListeners
    /\ LET n == notify_listeners(listeners)
       IN  /\ status' = set_status(status, preset_id, st, res)
           /\ listeners' = n.listeners
           /\ invoked' = n.invoked
           /\ returned' = Outcome(n, None_)
    /\ operation' = Call("set_status", Str_(preset_id), Str_(st))
    /\ UNCHANGED << presets, entry_data, handles, activation, controller_vars >>

\* create_preset without line 260, the status entry of the new preset
CreatePreset_NoStatus(preset_id, name, entities, state, targets) ==
    /\ Len(listeners) <= MaxListeners
    /\ preset_id \notin DOMAIN presets
    /\ LET preset == PresetConfig(preset_id, name, entities, state, targets)
           n == notify_listeners(listeners)
       IN  /\ presets' = (preset_id :> preset) @@ presets
           /\ status' = status
           /\ entry_data' = presets_data(presets')
           /\ listeners' = n.listeners
           /\ invoked' = n.invoked
           /\ returned' = Outcome(n, preset)
    /\ operation' = Call("create_preset", Str_(preset_id), Str_(name))
    /\ UNCHANGED << handles, activation, controller_vars >>

\* lines 229-264 and 147-161; uuid4 gives an id no preset has
CreatePreset(preset_id, name, entities, state, targets) ==
    /\ Len(listeners) <= MaxListeners
    /\ preset_id \notin DOMAIN presets
    /\ LET preset == PresetConfig(preset_id, name, entities, state, targets)
           n == notify_listeners(listeners)
       IN  /\ presets' = (preset_id :> preset) @@ presets
           /\ status' = (preset_id :> PresetStatus(PRESET_STATUS_IDLE, None_, None_)) @@ status
           /\ entry_data' = presets_data(presets')
           /\ listeners' = n.listeners
           /\ invoked' = n.invoked
           /\ returned' = Outcome(n, preset)
    /\ operation' = Call("create_preset", Str_(preset_id), Str_(name))
    /\ UNCHANGED << handles, activation, controller_vars >>

\* the exception of the registry cleanup leaves delete_preset
DeletePreset_CleanupRaises(preset_id, cleanup) ==
    /\ Len(listeners) <= MaxListeners
    /\ IF preset_id \notin DOMAIN presets
       THEN /\ returned' = Returns(FALSE)
            /\ invoked' = <<>>
            /\ UNCHANGED << presets, status, entry_data, listeners >>
       ELSE LET n == notify_listeners(listeners)
            IN  /\ presets' = [k \in DOMAIN presets \ {preset_id} |-> presets[k]]
                /\ status' = [k \in DOMAIN status \ {preset_id} |-> status[k]]
                /\ entry_data' = presets_data(presets')
                /\ listeners' = n.listeners
                /\ invoked' = n.invoked
                /\ returned' = IF cleanup = RegistryError THEN Raises ELSE Outcome(n, TRUE)
    /\ operation' = Call("delete_preset", Str_(preset_id), cleanup)
    /\ UNCHANGED << handles, activation, controller_vars >>

\* lines 267-299 and 148-161; cleanup is what the entity registry does in
\* lines 282-296: None_ or RegistryError, which line 295 catches
DeletePreset(preset_id, cleanup) ==
    /\ Len(listeners) <= MaxListeners
    /\ IF preset_id \notin DOMAIN presets
       THEN /\ returned' = Returns(FALSE)
            /\ invoked' = <<>>
            /\ UNCHANGED << presets, status, entry_data, listeners >>
       ELSE LET n == notify_listeners(listeners)
            IN  /\ presets' = [k \in DOMAIN presets \ {preset_id} |-> presets[k]]
                /\ status' = [k \in DOMAIN status \ {preset_id} |-> status[k]]
                /\ entry_data' = presets_data(presets')
                /\ listeners' = n.listeners
                /\ invoked' = n.invoked
                /\ returned' = Outcome(n, TRUE)
    /\ operation' = Call("delete_preset", Str_(preset_id), cleanup)
    /\ UNCHANGED << handles, activation, controller_vars >>

\* the calls of set_status the activation paths make
StatusCalls ==
    {[status |-> PRESET_STATUS_ACTIVATING, result |-> None_],
     [status |-> PRESET_STATUS_SUCCESS, result |-> ("success" :> TRUE)],
     [status |-> PRESET_STATUS_FAILED, result |-> ("success" :> FALSE)]}

ManagerNext ==
    \/ \E listener \in Listeners : RegisterListener(listener)
    \/ \E k \in 1..Len(handles) : Unsubscribe(k)
    \/ \E preset_id \in PresetIds : \E c \in StatusCalls :
           SetStatus(preset_id, c.status, c.result)
    \/ \E preset_id \in PresetIds :
           CreatePreset(preset_id, "Evening", << La, Lb >>, << "o", "n" >>, <<>>)
    \/ \E preset_id \in PresetIds : \E cleanup \in {None_, RegistryError} :
           DeletePreset(preset_id, cleanup)

ManagerSpec == ManagerInit /\ [][ManagerNext]_vars


\* ------------------------------------------------------------------------
\* The activate_preset service (__init__.py, async_handle_activate_preset):
\* the handler sets the status, awaits ensure_state through
\* activate_preset_with_options, and sets the status again.  While it
\* awaits, the other calls on the manager may run.
\* ------------------------------------------------------------------------
\* str.lower on the names and ids used here
lower_name(s) ==
    CASE s = "Evening" -> "evening"
      [] s = "EVENING" -> "evening"
      [] OTHER -> s

\* lines 189-203 of preset_manager.py: by id first, then by name
find_preset(ps, name_or_id) ==
    IF name_or_id \in DOMAIN ps THEN ps[name_or_id]
    ELSE LET hits == {k \in DOMAIN ps : lower_name(ps[k].name) = lower_name(name_or_id)}
         IN  IF hits = {} THEN None_ ELSE ps[CHOOSE k \in hits : TRUE]

\* entry.options as configured
Options ==
    [brightness_tolerance |-> 3, rgb_tolerance |-> 10, kelvin_tolerance |-> 150,
     delay_after_send |-> 2, max_retries |-> 1, max_runtime_seconds |-> 6,
     use_exponential_backoff |-> FALSE, max_backoff_seconds |-> 3,
     log_success |-> FALSE]

\* lines 366-413 of preset_manager.py: the arguments of ensure_state
activate_preset_with_options(preset, options) ==
    [entities |-> preset.entities,
     state_target |-> preset.state,
     default_brightness_pct |-> preset.brightness_pct,
     default_rgb_color |-> preset.rgb_color,
     default_color_temp_kelvin |-> preset.color_temp_kelvin,
     default_effect |-> preset.effect,
     targets |-> preset.targets,
     brightness_tolerance |-> options.brightness_tolerance,
     rgb_tolerance |-> options.rgb_tolerance,
     kelvin_tolerance |-> options.kelvin_tolerance,
     transition |-> preset.transition,
     delay_after_send |-> options.delay_after_send,
     max_retries |-> options.max_retries,
     max_runtime_seconds |-> options.max_runtime_seconds,
     use_exponential_backoff |-> options.use_exponential_backoff,
     max_backoff_seconds |-> options.max_backoff_seconds,
     skip_verification |-> preset.skip_verification,
     log_success |-> options.log_success]

\* ensure_state is entered with the arguments a: its locals are fresh
EnsureStateCalled(a) ==
    /\ args' = a
    /\ now' = 0
    /\ script_start' = 0
    /\ service_calls' = <<>>
    /\ pc' = "start"
    /\ target_state' = "None"
    /\ members' = <<>>
    /\ skipped_entities' = <<>>
    /\ pending_targets' = <<>>
    /\ attempt' = 0
    /\ current_delay' = 0
    /\ use_transition' = None_
    /\ tasks' = <<>>
    /\ result' = None_
    /\ sleeps' = <<>>
    /\ dispatched' = 0
    /\ wake_at' = 0
    /\ verified' = <<>>
    /\ verdicts' = EmptyDict
    /\ found_unavailable' = {}
    /\ send_raised' = FALSE

\* lines 386-413 of __init__.py: up to the await of the activation
ActivateBegin(name_or_id) ==
    /\ activation = None_
    /\ pc = "idle"
    /\ Len(listeners) <= MaxListeners
    /\ LET preset == find_preset(presets, name_or_id)
           n == notify_listeners(listeners)
       IN  IF preset = None_
           THEN \* ServiceValidationError: preset_not_found
                /\ operation' = Call("activate_preset", None_, Str_(name_or_id))
                /\ returned' = Raises
                /\ invoked' = <<>>
                /\ UNCHANGED << status, listeners, activation, controller_vars >>
           ELSE /\ status' = set_status(status, preset.id, PRESET_STATUS_ACTIVATING, None_)
                /\ listeners' = n.listeners
                /\ invoked' = n.invoked
                /\ activation' = [preset |-> preset]
                /\ operation' = Call("activate_preset", Str_(preset.id), Str_(name_or_id))
                /\ returned' = None_
                /\ EnsureStateCalled(activate_preset_with_options(preset, Options))
                /\ UNCHANGED << states, previous, other >>
    /\ UNCHANGED << presets, entry_data, handles >>

\* the handler passes every exception on as it passes a HomeAssistantError
\* on: without a status
ActivateEnd_Reraises ==
    /\ activation # None_
    /\ pc \in {"done", "raised"}
    /\ Len(listeners) <= MaxListeners
    /\ LET preset == activation.preset
           n == notify_listeners(listeners)
       IN  IF pc = "done"
           THEN /\ status' = set_status(status, preset.id,
                                        IF result.success THEN PRESET_STATUS_SUCCESS
                                        ELSE PRESET_STATUS_FAILED,
                                        result)
                /\ returned' = Returns(result)
                /\ listeners' = n.listeners
                /\ invoked' = n.invoked
                /\ operation' = Call("activate_preset", Str_(preset.id), None_)
           ELSE /\ returned' = Raises
                /\ invoked' = <<>>
                /\ operation' = Call("activate_preset", Str_(preset.id), None_)
                /\ UNCHANGED << status, listeners >>
    /\ activation' = None_
    /\ pc' = "idle"
    /\ UNCHANGED << presets, entry_data, handles, previous, other, args, env_vars, service_calls,
                    script_start, local_vars, result, hist_vars >>

\* lines 416-436 of __init__.py: ensure_state returned its result, or raised
\* an exception that is no HomeAssistantError
ActivateEnd ==
    /\ activation # None_
    /\ pc \in {"done", "raised"}
    /\ Len(listeners) <= MaxListeners
    /\ LET preset == activation.preset
           n == notify_listeners(listeners)
       IN  /\ IF pc = "done"
              THEN /\ status' = set_status(status, preset.id,
                                           IF result.success THEN PRESET_STATUS_SUCCESS
                                           ELSE PRESET_STATUS_FAILED,
                                           result)
                   /\ returned' = Returns(result)
              ELSE /\ status' = set_status(status, preset.id, PRESET_STATUS_FAILED,
                                           ("message" :> AttributeError))
                   /\ returned' = Raises
           /\ listeners' = n.listeners
           /\ invoked' = n.invoked
           /\ operation' = Call("activate_preset", Str_(preset.id), None_)
    /\ activation' = None_
    /\ pc' = "idle"
    /\ UNCHANGED << presets, entry_data, handles, previous, other, args, env_vars, service_calls,
                    script_start, local_vars, result, hist_vars >>

\* a preset over a group
GroupPreset == PresetConfig("p1", "Evening", << Gg, La >>, << "o", "n" >>, <<>>)

\* what the two lights may report: off, or on at full brightness
ActivationLightStates == {LightState(STATE_OFF, None_), LightState(STATE_ON, Int_(255))}

\* the manager holds one preset and two listeners, and no call is running
ActivationInit ==
    /\ CoroutineAtRest
    /\ target_state = "None"
    /\ args = NoRequest
    /\ states \in {[e \in {La, Lb, Gg, Ss} |->
                       CASE e = La -> a
                         [] e = Lb -> b
                         [] e = Gg -> g
                         [] e = Ss -> SensorState] :
                      a \in ActivationLightStates, b \in ActivationLightStates,
                      g \in {GroupState, MalformedGroupState}}
    /\ pending_targets = <<>>
    /\ result = None_
    /\ pc = "idle"
    /\ presets \in {("p1" :> Evening), ("p1" :> GroupPreset),
                    ("p1" :> [Evening EXCEPT !.skip_verification = TRUE])}
    /\ entry_data = presets_data(presets)
    /\ status = [k \in DOMAIN presets |-> PresetStatus(PRESET_STATUS_IDLE, None_, None_)]
    /\ listeners = << "faulty", "quiet" >>
    /\ handles = << [listener |-> "faulty", called |-> FALSE],
                    [listener |-> "quiet", called |-> FALSE] >>
    /\ operation = None_
    /\ invoked = <<>>
    /\ returned = None_
    /\ activation = None_

ActivationNext ==
    \/ \E name_or_id \in {"p1", "EVENING", "missing"} : ActivateBegin(name_or_id)
    \/ Progress
    \/ \E entity_id \in {La, Lb} : \E new_state \in ActivationLightStates :
           StateChanged(entity_id, new_state)
    \/ ActivateEnd
    \/ DeletePreset("p1", None_)

ActivationSpec == ActivationInit /\ [][ActivationNext]_vars


\* ------------------------------------------------------------------------
\* Two ensure_state calls on one event loop.  A LightController holds
\* nothing but self.hass (line 187); script_start, the targets, the
\* pending list, the attempt counter, the groups and the result are locals
\* of the coroutine.  One coroutine runs at a time, and at an await (the
\* gather of the dispatches, asyncio.sleep) the loop may start or resume
\* another.  hass.states, hass.services and the clock are shared.  other
\* holds the frame of the coroutine that is not running.
\* ------------------------------------------------------------------------
Frame ==
    [args |-> args, pc |-> pc, script_start |-> script_start, locals |-> local_vars,
     result |-> result, hist |-> hist_vars]

\* a controller that keeps the attempt counter on the object
Resume_AttemptOnSelf(frame) ==
    /\ args' = frame.args
    /\ pc' = frame.pc
    /\ script_start' = frame.script_start
    /\ target_state' = frame.locals[1]
    /\ members' = frame.locals[2]
    /\ skipped_entities' = frame.locals[3]
    /\ pending_targets' = frame.locals[4]
    /\ attempt' = attempt
    /\ current_delay' = frame.locals[6]
    /\ use_transition' = frame.locals[7]
    /\ tasks' = frame.locals[8]
    /\ result' = frame.result
    /\ sleeps' = frame.hist[1]
    /\ dispatched' = frame.hist[2]
    /\ wake_at' = frame.hist[3]
    /\ verified' = frame.hist[4]
    /\ verdicts' = frame.hist[5]
    /\ found_unavailable' = frame.hist[6]
    /\ send_raised' = frame.hist[7]

\* the coroutine goes on with the locals it was suspended with
Resume(frame) ==
    /\ args' = frame.args
    /\ pc' = frame.pc
    /\ script_start' = frame.script_start
    /\ target_state' = frame.locals[1]
    /\ members' = frame.locals[2]
    /\ skipped_entities' = frame.locals[3]
    /\ pending_targets' = frame.locals[4]
    /\ attempt' = frame.locals[5]
    /\ current_delay' = frame.locals[6]
    /\ use_transition' = frame.locals[7]
    /\ tasks' = frame.locals[8]
    /\ result' = frame.result
    /\ sleeps' = frame.hist[1]
    /\ dispatched' = frame.hist[2]
    /\ wake_at' = frame.hist[3]
    /\ verified' = frame.hist[4]
    /\ verdicts' = frame.hist[5]
    /\ found_unavailable' = frame.hist[6]
    /\ send_raised' = frame.hist[7]

\* the call whose coroutine is running
Running == IF other = None_ THEN "first" ELSE IF other.name = "first" THEN "second" ELSE "first"

\* the awaits of ensure_state: the gather of the dispatches and the sleep
AtAwait == pc \in {"sending", "sleeping"}

\* a second ensure_state call is made while the first is suspended: lines
\* 574-577 of the new coroutine
SecondCall(request) ==
    /\ other = None_
    /\ AtAwait
    /\ other' = [name |-> "first", frame |-> Frame]
    /\ Resume([args |-> request, pc |-> "start", script_start |-> now,
               locals |-> << "None", <<>>, <<>>, <<>>, 0, 0, None_, <<>> >>,
               result |-> None_,
               hist |-> << <<>>, 0, 0, <<>>, EmptyDict, {}, FALSE >>])
    /\ UNCHANGED << env_vars, service_calls, previous, manager_vars >>

\* the event loop runs the other coroutine
Switch ==
    /\ other # None_
    /\ AtAwait \/ pc \in {"done", "raised"}
    /\ other.frame.pc \notin {"done", "raised"}
    /\ other' = [name |-> Running, frame |-> Frame]
    /\ Resume(other.frame)
    /\ UNCHANGED << env_vars, service_calls, previous, manager_vars >>

ConcurrentLightStates == {LightState(STATE_OFF, None_), LightState(STATE_ON, Int_(191))}

OneLight(entity_id) ==
    {[r EXCEPT !.entities = << entity_id >>] :
         r \in {q \in Requests :
                    /\ q.entities = <<La, Lb>>
                    /\ q.targets = <<>>
                    /\ q.max_runtime_seconds = 6
                    /\ ~q.use_exponential_backoff}}

\* the first call turns light.a on and verifies it, the second turns
\* light.b off in a single round or without verification
FirstRequests ==
    {r \in OneLight(La) :
         /\ r.state_target = <<"O", "n">>
         /\ r.max_retries = MaxRetries
         /\ ~r.skip_verification}

SecondRequests ==
    {r \in OneLight(Lb) :
         /\ r.state_target = <<" ", "O", "F", "F", " ">>
         /\ r.max_retries = 1}

ConcurrentInit ==
    /\ AtRest
    /\ args \in FirstRequests
    /\ states \in {[e \in {La, Lb, Gg, Ss} |->
                       CASE e = La -> a
                         [] e = Lb -> b
                         [] e = Gg -> GroupState
                         [] e = Ss -> SensorState] :
                      a \in ConcurrentLightStates, b \in ConcurrentLightStates}
    /\ pending_targets = <<>>
    /\ result = None_
    /\ pc = "start"

ConcurrentNext ==
    \/ Validate
    \/ Expand
    \/ FireAndForget
    \/ LoopHead
    \/ \E i \in 1..Len(tasks) : CallService(i)
    \/ \E i \in 1..Len(tasks) : ServiceReturns(i)
    \/ \E i \in 1..Len(tasks) : ServiceRaises(i)
    \/ FireAndForgetReturn
    \/ Sleep
    \/ \E entity_id \in {La, Lb} : \E new_state \in ConcurrentLightStates :
           StateChanged(entity_id, new_state)
    \/ Verify
    \/ \E request \in SecondRequests : SecondCall(request)
    \/ Switch

ConcurrentSpec == ConcurrentInit /\ [][ConcurrentNext]_vars


\* ------------------------------------------------------------------------
\* create_preset_from_current, and the activation of the preset it made
\* ------------------------------------------------------------------------
\* lines 311-343: the target captured for one entity; brightness is the
\* attribute captured here (None_ stands for an attribute the state does
\* not have)
captured_target(state, entity_id) ==
    IF state.state = STATE_ON
    THEN IF state.attributes.brightness # None_
         THEN [entity_id |-> entity_id, state |-> "on",
               brightness_pct |-> round_pct(state.attributes.brightness.v)]
         ELSE [entity_id |-> entity_id, state |-> "on"]
    ELSE [entity_id |-> entity_id, state |-> "off"]

\* lines 309-343: one target per entity that has a state record
RECURSIVE captured_targets(_, _)
captured_targets(st, entities) ==
    IF entities = <<>> THEN <<>>
    ELSE LET state == get_state(st, entities[1])
             rest == captured_targets(st, Tail(entities))
         IN  IF state = None_ THEN rest
             ELSE << captured_target(state, entities[1]) >> \o rest

\* lines 346-347
any_on(st, entities) ==
    \E i \in 1..Len(entities) :
        get_state(st, entities[i]) # None_ /\ get_state(st, entities[i]).state = STATE_ON

\* lines 301-364
CreatePresetFromCurrent(preset_id, name, entities) ==
    /\ pc = "idle"
    /\ activation = None_
    /\ IF entities = <<>>
       THEN /\ operation' = Call("create_preset_from_current", None_, Str_(name))
            /\ returned' = Returns(None_)
            /\ invoked' = <<>>
            /\ UNCHANGED << presets, status, entry_data, listeners, handles, activation,
                            controller_vars >>
       ELSE CreatePreset(preset_id, name, entities,
                         IF any_on(states, entities) THEN << "o", "n" >>
                         ELSE << "o", "f", "f" >>,
                         captured_targets(states, entities))

CaptureLightStates ==
    {None_, LightState(STATE_OFF, None_), LightState(STATE_ON, Int_(255)),
     LightState(STATE_ON, Int_(128))}

CaptureInit ==
    /\ CoroutineAtRest
    /\ target_state = "None"
    /\ args = NoRequest
    /\ states \in {[e \in {La, Lb, Gg, Ss} |->
                       CASE e = La -> a
                         [] e = Lb -> b
                         [] e = Gg -> GroupState
                         [] e = Ss -> SensorState] :
                      a \in CaptureLightStates, b \in CaptureLightStates}
    /\ pending_targets = <<>>
    /\ result = None_
    /\ pc = "idle"
    /\ presets = EmptyDict
    /\ entry_data = EmptyDict
    /\ status = EmptyDict
    /\ listeners = <<>>
    /\ handles = <<>>
    /\ operation = None_
    /\ invoked = <<>>
    /\ returned = None_
    /\ activation = None_

CaptureNext ==
    \/ \E entities \in {<<>>, << La, Lb >>} :
           CreatePresetFromCurrent("p1", "Mixed", entities)
    \/ ActivateBegin("p1")
    \/ Validate
    \/ Expand
    \/ LoopHead
    \/ \E i \in 1..Len(tasks) : CallService(i)
    \/ \E i \in 1..Len(tasks) : ServiceReturns(i)
    \/ \E i \in 1..Len(tasks) : ServiceRaises(i)
    \/ Sleep
    \/ \E entity_id \in {La, Lb} :
           \E new_state \in {LightState(STATE_OFF, None_), LightState(STATE_ON, Int_(255))} :
               StateChanged(entity_id, new_state)
    \/ Verify
    \/ ActivateEnd

CaptureSpec == CaptureInit /\ [][CaptureNext]_vars


\* ------------------------------------------------------------------------
\* Vocabulary of the properties
\* ------------------------------------------------------------------------
Done == pc = "done"

\* the calls of light.turn_on and light.turn_off
LightCalls == SelectSeq(service_calls, LAMBDA c : c.domain = LIGHT_DOMAIN)

\* the state argument is 'on' or 'off' up to case and surrounding blanks
ValidStateStrings == { <<"O", "n">>, <<" ", "O", "F", "F", " ">> }

\* a light the oracle reports as absent, unavailable or unknown
Unreachable(entity_id) ==
    \/ states[entity_id] = None_
    \/ states[entity_id].state \in {"unavailable", "unknown"}

\* the invocation has passed validation and resolution with a device
Resolved == args.entities # <<>> /\ args.state_target \in ValidStateStrings /\ members # <<>>

VerifiedMode == ~args.skip_verification /\ Resolved

\* s is t with some elements left out
IsFilterOf(s, t) == s = SelectSeq(t, LAMBDA x : x \in Range(s))

\* C1: in verified mode the result is TIMEOUT when devices are pending and
\* the elapsed time has reached max_runtime_seconds, else FAILED when
\* devices are pending, else SUCCESS; success holds iff the code is SUCCESS,
\* failed_lights are the pending ids in resolution order, total_lights is
\* the number of resolved devices.
C1_ResultCode ==
    (Done /\ VerifiedMode) =>
        /\ result.result_code =
               IF pending_targets # <<>> /\ elapsed >= args.max_runtime_seconds
               THEN "timeout"
               ELSE IF pending_targets # <<>> THEN "failed" ELSE "success"
        /\ result.success = (result.result_code = "success")
        /\ result.failed_lights = ids_of(pending_targets)
        /\ IsFilterOf(result.failed_lights, members)
        /\ (result.result_code = "success" => result.failed_lights = <<>>)
        /\ result.total_lights = Len(members)

\* a run that exhausted its retries and still ends in TIMEOUT, one of two
\* devices pending
C1_Witness ==
    /\ Done /\ VerifiedMode
    /\ result.result_code = "timeout"
    /\ result.attempts = args.max_retries
    /\ Len(members) = 2
    /\ Len(result.failed_lights) = 1

\* the entity ids of a turn_on or turn_off call
EntitiesOf(call) == call.data["entity_id"].v

\* the ids sent to in the round of attempt a, in call order
RECURSIVE Flatten(_)
Flatten(calls) == IF calls = <<>> THEN <<>> ELSE EntitiesOf(calls[1]) \o Flatten(Tail(calls))

EntitiesSent(a) == Flatten(SelectSeq(LightCalls, LAMBDA c : c.attempt = a))

DispatchRounds == {LightCalls[i].attempt : i \in 1..Len(LightCalls)}

NoDuplicates(s) == \A i, j \in 1..Len(s) : s[i] = s[j] => i = j

\* the pending ids after k completed rounds
PendingAfter(k) == IF k < Len(verified) THEN verified[k + 1] ELSE ids_of(pending_targets)

RemovedAfter(k) == Range(members) \ Range(PendingAfter(k))

\* C2: the pending set never grows from one round to the next, and a device
\* that has left it is in no later turn_on/turn_off call and in no later
\* verification, whatever its state does afterwards.
C2_PendingNeverGrows ==
    VerifiedMode =>
        /\ \A k \in 0..(Len(verified) - 1) :
               Range(PendingAfter(k + 1)) \subseteq Range(PendingAfter(k))
        /\ \A i \in 1..Len(LightCalls) : \A k \in 0..LightCalls[i].attempt :
               Range(EntitiesOf(LightCalls[i])) \cap RemovedAfter(k) = {}
        /\ \A r \in 1..Len(verified) : \A k \in 0..(r - 1) :
               Range(verified[r]) \cap RemovedAfter(k) = {}

\* a light verified on in round 1 has gone off since, and round 2 was sent
\* and verified without it
C2_Witness ==
    /\ VerifiedMode
    /\ target_state = ON
    /\ Len(verified) = 2
    /\ 1 \in DispatchRounds
    /\ \E d \in Range(members) :
           /\ d \notin Range(verified[2])
           /\ d \notin found_unavailable
           /\ ~Unreachable(d)
           /\ states[d].state = "off"

\* C3: the attempt counter never exceeds max_retries; every counted attempt
\* is one complete round (one dispatch of every pending id, one sleep, one
\* verification) and no round is dispatched that is not counted.
C3_Attempts ==
    /\ attempt <= args.max_retries
    /\ VerifiedMode =>
        /\ Len(verified) = attempt
        /\ Len(sleeps) = attempt + (IF pc = "sleeping" THEN 1 ELSE 0)
        /\ DispatchRounds \subseteq 0..attempt
        /\ 0..(attempt - 1) \subseteq DispatchRounds
        /\ attempt \in DispatchRounds => pc \in {"sending", "sleeping"}
        /\ \A a \in 0..(attempt - 1) :
               /\ NoDuplicates(EntitiesSent(a))
               /\ Range(EntitiesSent(a)) = Range(verified[a + 1])
        /\ Done => /\ result.attempts = attempt
                   /\ result.attempts = Cardinality(DispatchRounds)

\* the retries are used up: max_retries rounds, all counted
C3_Witness ==
    /\ Done /\ VerifiedMode
    /\ args.max_retries = 2
    /\ result.attempts = 2
    /\ result.result_code = "failed"
    /\ Len(LightCalls) = 4

\* C4: no round is dispatched once the elapsed time has reached
\* max_runtime_seconds; a run that ends with devices pending and retries
\* left ended on the timeout guard, reports TIMEOUT, and its attempts are
\* the completed rounds only (0 when the guard fires on the first
\* iteration).
C4_TimeoutGuard ==
    VerifiedMode =>
        /\ pc = "sending" => elapsed < args.max_runtime_seconds
        /\ (Done /\ pending_targets # <<>> /\ result.attempts < args.max_retries) =>
               /\ result.result_code = "timeout"
               /\ ~result.success
               /\ elapsed >= args.max_runtime_seconds
               /\ result.attempts = Cardinality(DispatchRounds)
               /\ result.attempts = Len(verified)

\* the guard fires on the first iteration: TIMEOUT, attempts 0, nothing sent
C4_Witness ==
    /\ Done /\ VerifiedMode
    /\ result.result_code = "timeout"
    /\ result.attempts = 0
    /\ LightCalls = <<>>
    /\ args.max_retries = 2
    /\ Len(result.failed_lights) = 2

\* the lights an entity list reaches, in resolution order
ReachableLights ==
    CASE args.entities = <<La, Lb>> -> <<La, Lb>>
      [] args.entities = <<Gg, NotAStr, La>> -> <<Lb, La>>
      [] OTHER -> <<>>

\* the brightness a light is asked for
ExpectedPct(d) == IF d = Lb /\ args.targets # <<>> THEN 50 ELSE 75

\* C5: with skip_verification set, every batch is dispatched exactly once
\* (one turn_off for OFF, one turn_on per distinct settings for ON), nothing
\* is slept or verified, and the result is SUCCESS with attempts 0, no
\* failed lights and total_lights the number of valid devices.
C5_FireAndForget ==
    (args.skip_verification /\ Resolved) =>
        /\ pc \notin {"loop", "sleeping"}
        /\ sleeps = <<>> /\ verified = <<>> /\ attempt = 0
        /\ Done =>
            /\ result.success
            /\ result.result_code = "success"
            /\ result.attempts = 0
            /\ result.failed_lights = <<>>
            /\ result.total_lights =
                   Cardinality({d \in Range(ReachableLights) : ~Unreachable(d)})
            /\ result.total_lights = Len(members)
            /\ NoDuplicates(EntitiesSent(0))
            /\ Range(EntitiesSent(0)) = Range(members)
            /\ IF args.state_target = <<"O", "n">>
               THEN /\ \A i \in 1..Len(LightCalls) :
                           /\ LightCalls[i].service = "turn_on"
                           /\ \A d \in Range(EntitiesOf(LightCalls[i])) :
                                  LightCalls[i].data["brightness_pct"] = Int_(ExpectedPct(d))
                    /\ Len(LightCalls) = Cardinality({ExpectedPct(d) : d \in Range(members)})
               ELSE /\ Len(LightCalls) = 1
                    /\ LightCalls[1].service = "turn_off"

\* two batches sent once each, SUCCESS although a light is still off
C5_Witness ==
    /\ Done /\ args.skip_verification /\ Resolved
    /\ Len(LightCalls) = 2
    /\ states[La].state = "off"
    /\ result.total_lights = 2
    /\ Len(args.entities) = 3

\* C6: an empty entity list or a state other than on/off (case and outer
\* blanks aside) returns ERROR with attempts 0 and total_lights 0 before
\* any resolution, dispatch or verification.
C6_Validation ==
    (args.entities = <<>> \/ args.state_target \notin ValidStateStrings) =>
        /\ pc \in {"start", "done"}
        /\ LightCalls = <<>>
        /\ members = <<>> /\ skipped_entities = <<>>
        /\ sleeps = <<>> /\ verified = <<>>
        /\ Done =>
               result = OperationResult(FALSE, RESULT_CODE_ERROR, 0, 0, <<>>, <<>>, 0)

\* "o n" is refused although the lights could be resolved
C6_Witness ==
    /\ Done
    /\ args.state_target = <<"o", " ", "n">>
    /\ args.entities = <<La, Lb>>
    /\ Unreachable(La) /\ ~Unreachable(Lb)
    /\ result.result_code = "error"

\* C7: valid input that resolves to no available device returns
\* NO_VALID_ENTITIES with attempts 0 and the unavailable devices in
\* skipped_lights; nothing is dispatched, with or without verification.
C7_NoValidEntities ==
    (/\ args.entities # <<>>
     /\ args.state_target \in ValidStateStrings
     /\ pc \notin {"start", "expand"}
     /\ sleeps = <<>>
     /\ \A d \in Range(ReachableLights) : Unreachable(d)) =>
        /\ Done
        /\ LightCalls = <<>>
        /\ result.result_code = "no_valid_entities"
        /\ ~result.success
        /\ result.attempts = 0
        /\ result.failed_lights = <<>>
        /\ result.skipped_lights = ReachableLights

\* both lights of a group are unavailable and verification is skipped
C7_Witness ==
    /\ Done
    /\ result.result_code = "no_valid_entities"
    /\ args.skip_verification
    /\ args.entities = <<Gg, NotAStr, La>>
    /\ result.skipped_lights = <<Lb, La>>
    /\ states[La] # None_ /\ states[La].state = "unknown"

\* the light reports what it was asked for
Converged(d) ==
    /\ ~Unreachable(d)
    /\ IF args.state_target = <<"O", "n">>
       THEN states[d] = LightState("on", Int_(IF ExpectedPct(d) = 75 THEN 191 ELSE 128))
       ELSE states[d].state = "off"

IsPermutationOf(s, t) == NoDuplicates(s) /\ Len(s) = Len(t) /\ Range(s) = Range(t)

\* the round just verified and nothing has run since
JustVerified == pc \in {"loop", "done"} /\ attempt >= 1

\* C8: a turn_on or turn_off call that raises does not end the invocation:
\* every pending id of the round is still dispatched to, the round sleeps
\* and verifies and is counted, and a device is pending afterwards exactly
\* when its state has not converged (and is not unreachable), whether or
\* not a dispatch of the round raised.
C8_DispatchFailureAbsorbed ==
    VerifiedMode =>
        /\ pc # "raised"
        /\ pc = "sleeping" =>
               /\ IsPermutationOf(EntitiesSent(attempt), ids_of(pending_targets))
               /\ Len(sleeps) = attempt + 1
        /\ JustVerified =>
               /\ Len(sleeps) = attempt /\ Len(verified) = attempt
               /\ attempt - 1 \in DispatchRounds
               /\ \A d \in Range(Last(verified)) :
                      d \in Range(ids_of(pending_targets))
                          <=> ~(Converged(d) \/ Unreachable(d))

\* a dispatch of the only round raised and both lights verified all the same
C8_Witness ==
    /\ Done /\ VerifiedMode
    /\ send_raised
    /\ result.result_code = "success"
    /\ result.attempts = 1
    /\ Len(members) = 2
    /\ Len(LightCalls) = 2
    /\ found_unavailable = {}

\* the brightness of a light that is on is not a number
BadReading(d) ==
    /\ args.state_target = <<"O", "n">>
    /\ ~Unreachable(d)
    /\ states[d].state = "on"
    /\ states[d].attributes.brightness.t = "str"

\* C9: a device whose verification raises gets the verdict ERROR and stays
\* pending (in failed_lights when the run ends there); no other device of
\* the round gets ERROR, and one that has converged is verified SUCCESS
\* and leaves pending.
C9_VerificationError ==
    (VerifiedMode /\ JustVerified) =>
        \A d \in Range(Last(verified)) :
            /\ BadReading(d) =>
                   /\ verdicts[d] = "error"
                   /\ d \in Range(ids_of(pending_targets))
                   /\ Done => d \in Range(result.failed_lights)
            /\ ~BadReading(d) =>
                   /\ verdicts[d] # "error"
                   /\ Converged(d) =>
                          /\ verdicts[d] = "success"
                          /\ d \notin Range(ids_of(pending_targets))

\* in the second round one light raised and the other verified
C9_Witness ==
    /\ Done /\ VerifiedMode
    /\ result.attempts = 2
    /\ Range(verified[1]) = {La, Lb}
    /\ Range(verified[2]) = {La, Lb}
    /\ verdicts[La] = "error"
    /\ verdicts[Lb] = "success"
    /\ result.failed_lights = <<La>>
    /\ result.result_code = "failed"

\* the last round that verified d
LastVerified(d) ==
    CHOOSE r \in 1..Len(verified) :
        /\ d \in Range(verified[r])
        /\ \A r2 \in (r + 1)..Len(verified) : d \notin Range(verified[r2])

\* C10 as stated: a device found unavailable at a verification round is
\* recorded in skipped_lights of the result.
C10_Original ==
    (Done /\ VerifiedMode) =>
        \A d \in found_unavailable :
            /\ d \notin Range(result.failed_lights)
            /\ d \in Range(result.skipped_lights)

\* C10: a device found unavailable at a verification round leaves pending,
\* is dispatched to in no later round, is not in failed_lights and does not
\* keep the result from SUCCESS; it is not added to skipped_lights, which
\* stays the list of devices unavailable at resolution, and it stays
\* counted in total_lights.
C10_UnavailableDropped ==
    VerifiedMode =>
        \A d \in found_unavailable :
            /\ d \in Range(members)
            /\ d \notin Range(skipped_entities)
            /\ d \notin Range(ids_of(pending_targets))
            /\ \A i \in 1..Len(LightCalls) :
                   d \in Range(EntitiesOf(LightCalls[i])) =>
                       LightCalls[i].attempt + 1 <= LastVerified(d)
            /\ Done =>
                   /\ d \notin Range(result.failed_lights)
                   /\ d \notin Range(result.skipped_lights)
                   /\ result.skipped_lights = skipped_entities
                   /\ result.total_lights = Len(members)
                   /\ result.failed_lights = <<>> =>
                          result.success /\ result.result_code = "success"

\* one light became unavailable in round 1, the other verified in round 2
C10_Witness ==
    /\ Done /\ VerifiedMode
    /\ result.attempts = 2
    /\ Len(verified) = 2
    /\ Cardinality(found_unavailable) = 1
    /\ Len(members) = 2
    /\ Range(verified[1]) = {La, Lb}
    /\ Len(verified[2]) = 1
    /\ result.success
    /\ result.skipped_lights = <<>>

\* resolution is over and hass.states is still what resolution read
ResolvedUnchanged ==
    /\ args.entities # <<>>
    /\ args.state_target \in ValidStateStrings
    /\ pc \notin {"start", "expand"}
    /\ sleeps = <<>>

\* the ids of the dispatch coroutines of the round in progress
TaskEntities == UNION {Range(EntitiesOf(tasks[i])) : i \in 1..Len(tasks)}

\* C11: a light that is unavailable at resolution is in skipped_lights and
\* is never planned, batched, dispatched to or verified, is not counted in
\* total_lights and is not in failed_lights; the other devices run as
\* usual.
C11_SkippedAtResolution ==
    /\ ResolvedUnchanged =>
           /\ skipped_entities = SelectSeq(ReachableLights, Unreachable)
           /\ members = SelectSeq(ReachableLights, LAMBDA d : ~Unreachable(d))
    /\ \A d \in Range(skipped_entities) :
           /\ d \notin Range(members)
           /\ d \notin Range(ids_of(pending_targets))
           /\ d \notin TaskEntities
           /\ \A i \in 1..Len(LightCalls) : d \notin Range(EntitiesOf(LightCalls[i]))
           /\ \A r \in 1..Len(verified) : d \notin Range(verified[r])
           /\ d \notin DOMAIN verdicts
           /\ d \notin found_unavailable
           /\ Done =>
                  /\ d \in Range(result.skipped_lights)
                  /\ d \notin Range(result.failed_lights)
                  /\ result.total_lights = Len(members)
                         \/ (members = <<>> /\ result.total_lights = 0)
                  /\ result.total_lights <= Cardinality(Range(ReachableLights)) - 1

\* one light was unavailable at resolution and has come back since; the
\* other one took two rounds and the result is SUCCESS
C11_Witness ==
    /\ Done /\ VerifiedMode
    /\ args.entities = <<La, Lb>>
    /\ result.skipped_lights = <<La>>
    /\ ~Unreachable(La)
    /\ result.success
    /\ result.total_lights = 1
    /\ result.attempts = 2
    /\ Len(LightCalls) = 2

SameSettings(a, b) ==
    /\ a.brightness_pct = b.brightness_pct
    /\ a.rgb_color = b.rgb_color
    /\ a.color_temp_kelvin = b.color_temp_kelvin
    /\ a.effect = b.effect

\* the batches that hold the id d
BatchesOf(groups, d) == {i \in 1..Len(groups) : d \in Range(groups[i].entities)}

AllCompleted == \A i \in 1..Len(tasks) : tasks[i].status \in {"returned", "raised"}

\* a turn_on or turn_off call is made in this step
LightCallMade ==
    /\ Len(service_calls') = Len(service_calls) + 1
    /\ Last(service_calls').domain = LIGHT_DOMAIN

\* the dispatch coroutines of the round exist together, one per batch, and
\* cover the pending ids
C13_FanOut ==
    (VerifiedMode /\ pc = "sending") =>
        /\ IsPermutationOf(Flatten(tasks), ids_of(pending_targets))
        /\ args.state_target = <<"O", "n">> =>
               Len(tasks) = Cardinality({ExpectedPct(d) : d \in Range(ids_of(pending_targets))})
        /\ Len(verified) = attempt /\ Len(sleeps) = attempt

C13_Step ==
    /\ (pc = "sending" /\ pc' # "sending") => AllCompleted
    /\ Len(sleeps') > Len(sleeps) => (pc = "sending" /\ AllCompleted)
    /\ Len(verified') > Len(verified) =>
           /\ pc = "sleeping"
           /\ Len(sleeps) = Len(verified) + 1
           /\ now' = Min(now + Last(sleeps), MaxClock)
    /\ LightCallMade =>
           /\ pc = "sending"
           /\ Last(service_calls').attempt = Len(verified)
           /\ Len(sleeps) = Len(verified)

\* C13: the dispatch coroutines of a round are all created before any of
\* them is awaited; the sleep of the round starts only when every one of
\* them has returned or raised, in whatever order; the verification of the
\* round comes after its sleep has lasted the delay, and a call of the next
\* round only after that verification.
C13_FanOutFanIn == [](C13_FanOut) /\ [][C13_Step]_vars

\* second round, two batches in flight: the second has completed, the first
\* has not
C13_Witness ==
    /\ VerifiedMode /\ pc = "sending"
    /\ attempt = 1
    /\ Len(tasks) = 2
    /\ tasks[1].status = "called"
    /\ tasks[2].status = "raised"

OffRequested == args.state_target = <<" ", "O", "F", "F", " ">>

CallsOfRound(a) == SelectSeq(LightCalls, LAMBDA c : c.attempt = a)

\* C14: for an OFF target every round makes exactly one turn_off call, for
\* exactly the ids pending in that round, however many settings they have;
\* no turn_on is made and the turn_off data is the entity list alone.
C14_TurnOffOnce ==
    (OffRequested /\ Resolved) =>
        /\ \A i \in 1..Len(LightCalls) :
               /\ LightCalls[i].service = "turn_off"
               /\ DOMAIN LightCalls[i].data = {"entity_id"}
        /\ \A a \in DispatchRounds :
               /\ Len(CallsOfRound(a)) = 1
               /\ EntitiesOf(CallsOfRound(a)[1]) = PendingAfter(a)
               /\ NoDuplicates(PendingAfter(a))
        /\ pc = "sending" => Len(tasks) = 1

\* two lights with different brightness settings, one turn_off for both in
\* round 1 and one for the light still on in round 2
C14_Witness ==
    /\ Done /\ VerifiedMode /\ OffRequested
    /\ args.targets # <<>>
    /\ Len(group_by_settings(build_targets(members, build_overrides(args.targets), 75, None_, None_, None_))) = 2
    /\ Len(LightCalls) = 2
    /\ Len(EntitiesOf(LightCalls[1])) = 2
    /\ Len(EntitiesOf(LightCalls[2])) = 1
    /\ result.success

\* C15: a turn_on carries a transition exactly when it is sent in the
\* first round (attempt 0) and the caller's transition is greater than 0,
\* and then it is the caller's; a turn_off never carries one and a
\* transition of 0 is in no payload.
C15_TransitionFirstRoundOnly ==
    \A i \in 1..Len(LightCalls) :
        LET c == LightCalls[i]
        IN  /\ "transition" \in DOMAIN c.data
                <=> (c.service = "turn_on" /\ c.attempt = 0 /\ args.transition > 0)
            /\ "transition" \in DOMAIN c.data =>
                   /\ c.data["transition"] = Int_(args.transition)
                   /\ c.data["transition"].v # 0

\* a transition of 2 was asked for; round 1 sent it, round 2 did not
C15_Witness ==
    /\ Done /\ VerifiedMode
    /\ args.transition = 2
    /\ DispatchRounds = {0, 1}
    /\ \E i, k \in 1..Len(LightCalls) :
           /\ LightCalls[i].attempt = 0
           /\ LightCalls[i].service = "turn_on"
           /\ "transition" \in DOMAIN LightCalls[i].data
           /\ LightCalls[k].attempt = 1
           /\ LightCalls[k].service = "turn_on"
           /\ "transition" \notin DOMAIN LightCalls[k].data

\* a transition of 0 was asked for and turn_on was sent in the first round
C15_WitnessZero ==
    /\ Done
    /\ args.transition = 0
    /\ \E i \in 1..Len(LightCalls) :
           LightCalls[i].service = "turn_on" /\ LightCalls[i].attempt = 0

\* the reference has a state record with a member list that is not empty
HasMembers(ref) ==
    /\ ref.t = "str"
    /\ states[ref] # None_
    /\ states[ref].attributes.entity_id # <<>>

IsLight(e) == e.t = "str" /\ e.domain = "light"

\* the lights a reference reaches, in order, repetitions included
ReachedBy(ref) ==
    IF ref.t # "str" THEN <<>>
    ELSE IF HasMembers(ref) THEN SelectSeq(states[ref].attributes.entity_id, IsLight)
    ELSE IF IsLight(ref) THEN <<ref>>
    ELSE <<>>

RECURSIVE ReachedByAll(_)
ReachedByAll(refs) ==
    IF refs = <<>> THEN <<>> ELSE ReachedBy(refs[1]) \o ReachedByAll(Tail(refs))

FirstIndex(s, x) == CHOOSE i \in 1..Len(s) : s[i] = x /\ \A k \in 1..(i - 1) : s[k] # x

\* s lists its elements once each, in the order they first occur in t
FirstOccurrenceOrder(s, t) ==
    /\ NoDuplicates(s)
    /\ Range(s) \subseteq Range(t)
    /\ \A i, k \in 1..Len(s) : i < k => FirstIndex(t, s[i]) < FirstIndex(t, s[k])

\* C16: valid and skipped have no duplicates and keep first-occurrence
\* order, they are disjoint, and together they are the lights reachable
\* from the references: light references without members and the light
\* members of references with a member list.
C16_ExpandEntities ==
    pc = "expanded" =>
        /\ ~result.raised
        /\ FirstOccurrenceOrder(result.valid, ReachedByAll(args.entities))
        /\ FirstOccurrenceOrder(result.skipped, ReachedByAll(args.entities))
        /\ Range(result.valid) \cap Range(result.skipped) = {}
        /\ Range(result.valid) \cup Range(result.skipped)
               = Range(ReachedByAll(args.entities))

\* a group, a light and a light group reach the same lights several times
\* over; some are valid and one is skipped
C16_Witness ==
    /\ pc = "expanded"
    /\ args.entities = <<Gg, La, Lg>>
    /\ Len(ReachedByAll(args.entities)) = 7
    /\ result.valid = <<Lb, La>>
    /\ result.skipped = <<Lg>>

\* the state record exists and its status is neither unavailable nor unknown
Available(e) ==
    /\ states[e] # None_
    /\ states[e].state # "unavailable"
    /\ states[e].state # "unknown"

\* C17: _expand_entity gives nothing for a reference that is not a string;
\* for a reference with a member list, the available light members as
\* valid and the other light members as skipped, members taken as they are
\* and the reference itself left out; for a light without members, the
\* light itself, valid if available and skipped if not; nothing for any
\* other reference.
C17_ExpandEntity ==
    pc = "expanded_one" =>
        LET ref == args.entities[1]
        IN  /\ ~result.raised
            /\ IF ref.t # "str"
               THEN result.valid = <<>> /\ result.skipped = <<>>
               ELSE IF HasMembers(ref)
               THEN /\ result.valid =
                           SelectSeq(states[ref].attributes.entity_id,
                                     LAMBDA m : IsLight(m) /\ Available(m))
                    /\ result.skipped =
                           SelectSeq(states[ref].attributes.entity_id,
                                     LAMBDA m : IsLight(m) /\ ~Available(m))
                    /\ ref \notin Range(result.valid) \cup Range(result.skipped)
               ELSE IF IsLight(ref)
               THEN IF Available(ref)
                    THEN result.valid = <<ref>> /\ result.skipped = <<>>
                    ELSE result.valid = <<>> /\ result.skipped = <<ref>>
               ELSE result.valid = <<>> /\ result.skipped = <<>>

\* a group: its sensor is left out, its light group is taken as one light
\* and not opened, the light without a state record is skipped both times
\* it is listed
C17_Witness ==
    /\ pc = "expanded_one"
    /\ args.entities[1] = Gg
    /\ states[Lb] = None_
    /\ result.valid = <<Lg, La>>
    /\ result.skipped = <<Lb, Lb>>

Abs(x) == IF x < 0 THEN -x ELSE x

\* p is raw * 100 / 255 rounded to the nearest integer
IsRoundedPct(raw, p) == 2 * Abs(raw * 100 - 255 * p) < 255

\* the reported brightness, 0 when there is none
RawBrightness(e) ==
    IF states[e].attributes.brightness = None_ THEN 0
    ELSE states[e].attributes.brightness.v

\* the reported brightness is a number within tolerance of the target's
BrightnessPasses(e, target_pct, tolerance) ==
    \E p \in (target_pct - tolerance)..(target_pct + tolerance) :
        IsRoundedPct(RawBrightness(e), p)

BrightnessIsNumber(e) == states[e].attributes.brightness.t \in {"None", "int"}

\* C18: _verify_light returns one of the six verdicts: UNAVAILABLE when the
\* state record is absent or unavailable/unknown, whatever the target; else
\* for OFF, SUCCESS iff the status is off and WRONG_STATE otherwise,
\* brightness and colour unread; for ON, WRONG_STATE when the status is not
\* on, before brightness and colour, and WRONG_BRIGHTNESS before colour.
C18_VerdictPrecedence ==
    pc = "verified" =>
        LET target == pending_targets[1]
        IN  /\ result \in {"success", "wrong_state", "brightness", "color",
                           "unavailable", "error"}
            /\ IF Unreachable(La) THEN result = "unavailable"
               ELSE IF target_state = OFF
               THEN result = IF states[La].state = "off" THEN "success" ELSE "wrong_state"
               ELSE IF states[La].state # "on" THEN result = "wrong_state"
               ELSE IF ~BrightnessIsNumber(La) THEN result = "error"
               ELSE IF ~BrightnessPasses(La, target.brightness_pct, 3)
                    THEN result = "brightness"
               ELSE result \in {"success", "color"}

\* an OFF target and a light reported unknown: UNAVAILABLE, not WRONG_STATE
C18_Witness ==
    /\ pc = "verified"
    /\ target_state = OFF
    /\ states[La] # None_
    /\ states[La].state = "unknown"
    /\ result = "unavailable"

\* an ON target, a light that is off with a brightness that is no number
\* and colours that match nothing: WRONG_STATE
C18_WitnessWrongState ==
    /\ pc = "verified"
    /\ target_state = ON
    /\ states[La] # None_
    /\ states[La].state = "off"
    /\ states[La].attributes.brightness = Str_("bad")
    /\ result = "wrong_state"

\* C19: for an ON target and a light that is on, the brightness check
\* passes iff target - tolerance <= round(raw * 100 / 255) <= target +
\* tolerance, bounds included, raw being 0 when no brightness is reported;
\* when it fails the verdict is WRONG_BRIGHTNESS.  Raw 191 passes for
\* target 75 and tolerance 3, raw 128 does not.
C19_BrightnessTolerance ==
    LET target_pct == pending_targets[1].brightness_pct
    IN  /\ (pc = "verified_brightness" /\ BrightnessIsNumber(La)) =>
               /\ result \in {"True", "False"}
               /\ result = "True" <=> BrightnessPasses(La, target_pct, 3)
               /\ target_pct = 75 =>
                      /\ RawBrightness(La) \in {183, 191, 199} => result = "True"
                      /\ RawBrightness(La) \in {0, 128, 201} => result = "False"
        /\ (/\ pc = "verified"
            /\ target_state = ON
            /\ ~Unreachable(La)
            /\ states[La].state = "on"
            /\ BrightnessIsNumber(La)) =>
               result = "brightness" <=> ~BrightnessPasses(La, target_pct, 3)

\* raw 183 is 71.8 percent, rounded 72: the lower bound of 75 +- 3 passes
C19_Witness ==
    /\ pc = "verified_brightness"
    /\ pending_targets[1].brightness_pct = 75
    /\ states[La].attributes.brightness = Int_(183)
    /\ result = "True"

\* raw 128 against 75 +- 3: WRONG_BRIGHTNESS
C19_WitnessFails ==
    /\ pc = "verified"
    /\ pending_targets[1].brightness_pct = 75
    /\ states[La] # None_
    /\ states[La].state = "on"
    /\ states[La].attributes.brightness = Int_(128)
    /\ result = "brightness"

\* the colour modes the light advertises
Modes(e) ==
    IF states[e].attributes.supported_color_modes = None_ THEN {}
    ELSE Range(states[e].attributes.supported_color_modes.v)

\* the light advertises rgb or hs and its reported RGB is missing,
\* malformed or out of tolerance
RgbNoMatch(e, rgb, tolerance) ==
    LET reported == states[e].attributes.rgb_color
    IN  /\ "rgb" \in Modes(e) \/ "hs" \in Modes(e)
        /\ \/ reported = None_
           \/ Len(reported.v) # 3
           \/ \E i \in 1..3 : Abs(reported.v[i].v - rgb.v[i]) > tolerance

\* the light advertises color_temp and its reported kelvin is missing or
\* out of tolerance
KelvinNoMatch(e, kelvin, tolerance) ==
    LET attrs == states[e].attributes
        reported == IF attrs.color_temp_kelvin # None_ THEN attrs.color_temp_kelvin
                    ELSE attrs.color_temperature_kelvin
    IN  /\ "color_temp" \in Modes(e)
        /\ \/ reported = None_
           \/ Abs(reported.v - kelvin.v) > tolerance

\* an ON target, a light that is on and a brightness that passes
ColourDecides ==
    /\ pc = "verified"
    /\ target_state = ON
    /\ ~Unreachable(La)
    /\ states[La].state = "on"
    /\ BrightnessIsNumber(La)
    /\ BrightnessPasses(La, pending_targets[1].brightness_pct, 3)

\* C20: once state and brightness pass, the verdict is WRONG_COLOR iff the
\* target sets both rgb_color and color_temp_kelvin and both checks are a
\* no-match; in every other case it is SUCCESS, a single requested
\* representation that is supported and out of tolerance included.
C20_ColourVerdict ==
    ColourDecides =>
        LET target == pending_targets[1]
        IN  result =
                IF /\ target.rgb_color # None_
                   /\ target.color_temp_kelvin # None_
                   /\ RgbNoMatch(La, target.rgb_color, 10)
                   /\ KelvinNoMatch(La, target.color_temp_kelvin, 150)
                THEN "color" ELSE "success"

\* both representations requested, both advertised, both out of tolerance
C20_Witness ==
    /\ ColourDecides
    /\ pending_targets[1].rgb_color = Red
    /\ pending_targets[1].color_temp_kelvin = Int_(4000)
    /\ states[La].attributes.rgb_color = List_(<<Int_(244), Int_(0), Int_(0)>>)
    /\ states[La].attributes.color_temp_kelvin = Int_(4151)
    /\ result = "color"

\* only rgb requested, advertised and out of tolerance: SUCCESS
C20_WitnessLenient ==
    /\ ColourDecides
    /\ pending_targets[1].rgb_color = Red
    /\ pending_targets[1].color_temp_kelvin = None_
    /\ RgbNoMatch(La, Red, 10)
    /\ result = "success"

\* both requested, rgb within tolerance at its edge, kelvin out: SUCCESS
C20_WitnessOneMatches ==
    /\ ColourDecides
    /\ pending_targets[1].rgb_color = Red
    /\ pending_targets[1].color_temp_kelvin = Int_(4000)
    /\ "hs" \in Modes(La)
    /\ states[La].attributes.rgb_color = List_(<<Int_(245), Int_(10), Int_(0)>>)
    /\ KelvinNoMatch(La, Int_(4000), 150)
    /\ result = "success"

\* ------------------------------------------------------------------------
\* C21
\* ------------------------------------------------------------------------
\* the delay the backoff law gives for attempt n
BackoffLaw(n) ==
    IF n = 0 \/ ~args.use_exponential_backoff
    THEN args.delay_after_send
    ELSE IF args.delay_after_send * (2 ^ n) <= args.max_backoff_seconds
         THEN args.delay_after_send * (2 ^ n)
         ELSE args.max_backoff_seconds

\* C21: calculate_delay(attempt) is delay_after_send when attempt = 0 or
\* backoff is disabled and min(delay_after_send * 2^attempt,
\* max_backoff_seconds) otherwise; with delay 2 and cap 10 the delays of
\* attempts 0, 1, 2, 3, 5 are 2, 4, 8, 10, 10, and 2 at every attempt without
\* backoff; the k-th sleep of ensure_state lasts the delay of attempt k - 1
C21_BackoffLaw ==
    /\ pc = "delayed" => result = BackoffLaw(attempt)
    /\ (pc = "delayed" /\ args.delay_after_send = 2 /\ args.max_backoff_seconds = 10)
           => result = IF args.use_exponential_backoff
                       THEN (0 :> 2 @@ 1 :> 4 @@ 2 :> 8 @@ 3 :> 10 @@ 4 :> 10 @@ 5 :> 10
                             @@ 6 :> 10)[attempt]
                       ELSE 2
    /\ \A k \in 1..Len(sleeps) : sleeps[k] = BackoffLaw(k - 1)

\* the second sleep of an ensure_state call with backoff lasts twice the
\* first
C21_Witness ==
    /\ args.use_exponential_backoff
    /\ sleeps = <<1, 2>>
    /\ pc = "sleeping"

\* calculate_delay(3) hits the cap
C21_WitnessCapped ==
    /\ pc = "delayed"
    /\ args.use_exponential_backoff
    /\ args.delay_after_send = 2 /\ args.max_backoff_seconds = 10
    /\ attempt = 3
    /\ result = 10

\* ------------------------------------------------------------------------
\* C22
\* ------------------------------------------------------------------------
\* the positions of the overrides given for device d
OverridesFor(d) ==
    {i \in 1..Len(args.targets) :
         "entity_id" \in DOMAIN args.targets[i] /\ args.targets[i].entity_id = d}

HasOverride(d) == OverridesFor(d) # {}

\* the override in force for device d: the last one given for it
OverrideFor(d) ==
    args.targets[CHOOSE i \in OverridesFor(d) : \A j \in OverridesFor(d) : j <= i]

\* the override for d contains the field
Overridden(d, field) == HasOverride(d) /\ field \in DOMAIN OverrideFor(d)

\* the override's value when the override contains the field, the default
\* otherwise
OverrideOrDefault(d, field, default) ==
    IF Overridden(d, field) THEN OverrideFor(d)[field] ELSE default

OneTargetPerMember ==
    /\ Len(pending_targets) = Len(members)
    /\ \A i \in 1..Len(members) : pending_targets[i].entity_id = members[i]

\* C22 as stated: one target per device in resolution order, every field
\* the override's value when the override contains the field and the
\* default otherwise
C22_Original ==
    pc = "built" =>
        /\ OneTargetPerMember
        /\ \A i \in 1..Len(members) :
               LET d == members[i]
                   t == pending_targets[i]
               IN  /\ t.brightness_pct =
                          OverrideOrDefault(d, "brightness_pct", args.default_brightness_pct)
                   /\ t.rgb_color = OverrideOrDefault(d, "rgb_color", args.default_rgb_color)
                   /\ t.color_temp_kelvin =
                          OverrideOrDefault(d, "color_temp_kelvin",
                                            args.default_color_temp_kelvin)
                   /\ t.effect = OverrideOrDefault(d, "effect", args.default_effect)

\* C22: one target per device in resolution order; brightness_pct,
\* rgb_color and effect are the override's value when the override of that
\* device contains the field and the default otherwise; color_temp_kelvin
\* is the override's color_temp_kelvin, else the override's
\* color_temperature_kelvin, else the default; a device's target depends on
\* no other device's override
C22_BuildTargets ==
    pc = "built" =>
        /\ OneTargetPerMember
        /\ \A i \in 1..Len(members) :
               LET d == members[i]
                   t == pending_targets[i]
               IN  /\ t.brightness_pct =
                          OverrideOrDefault(d, "brightness_pct", args.default_brightness_pct)
                   /\ t.rgb_color = OverrideOrDefault(d, "rgb_color", args.default_rgb_color)
                   /\ t.color_temp_kelvin =
                          OverrideOrDefault(d, "color_temp_kelvin",
                              OverrideOrDefault(d, "color_temperature_kelvin",
                                                args.default_color_temp_kelvin))
                   /\ t.effect = OverrideOrDefault(d, "effect", args.default_effect)
                   /\ ~HasOverride(d) =>
                          t = LightTarget(d, args.default_brightness_pct,
                                          args.default_rgb_color,
                                          args.default_color_temp_kelvin,
                                          args.default_effect)

\* light.a is overridden in full and light.b, first in resolution order and
\* without an override, gets the defaults
C22_Witness ==
    /\ pc = "built"
    /\ members = <<Lb, La, Lc>>
    /\ Overridden(La, "effect") /\ Overridden(La, "rgb_color")
    /\ ~HasOverride(Lb)
    /\ args.default_rgb_color = Blue
    /\ pending_targets[1].rgb_color = Blue
    /\ pending_targets[2].rgb_color = Red
    /\ pending_targets[2].brightness_pct = 50

\* an override that holds only the older key of the colour temperature
C22_WitnessOlderKey ==
    /\ pc = "built"
    /\ Overridden(La, "color_temperature_kelvin")
    /\ ~Overridden(La, "color_temp_kelvin")
    /\ args.default_color_temp_kelvin = Int_(4000)
    /\ \E i \in 1..Len(members) :
           members[i] = La /\ pending_targets[i].color_temp_kelvin = Int_(2700)

\* ------------------------------------------------------------------------
\* C23
\* ------------------------------------------------------------------------
\* the value a built target carries for a field, None_ when the target has
\* no such field
Carried(t, field) == IF field \in DOMAIN t THEN t[field] ELSE None_

\* C23: an override's state and transition are carried on that device's
\* target; a device without them has state "on" and no transition
C23_StateAndTransitionCarried ==
    pc = "built" =>
        \A i \in 1..Len(members) :
            LET d == members[i]
                t == pending_targets[i]
            IN  /\ "state" \in DOMAIN t
                /\ t.state = OverrideOrDefault(d, "state", Str_("on"))
                /\ Carried(t, "transition") = OverrideOrDefault(d, "transition", None_)

\* light.a is overridden to off with a transition of 3 s inside an "on"
\* call, and its built target carries neither
C23_Witness ==
    /\ pc = "built"
    /\ target_state = ON
    /\ Overridden(La, "state") /\ OverrideFor(La)["state"] = Str_("off")
    /\ Overridden(La, "transition") /\ OverrideFor(La)["transition"] = Int_(3)
    /\ \E i \in 1..Len(members) :
           /\ members[i] = La
           /\ Carried(pending_targets[i], "state") = None_
           /\ Carried(pending_targets[i], "transition") = None_

\* ------------------------------------------------------------------------
\* C24
\* ------------------------------------------------------------------------
\* the ON command of the round has been built
PayloadBuilt == pc \in {"verify", "verified"} /\ Len(tasks) = 1

Payload == tasks[1].data

\* C24: the ON payload always holds brightness_pct, holds rgb_color iff the
\* target has one, color_temp_kelvin iff the target has one and no
\* rgb_color, never both colour keys, and effect iff set; with both colours
\* set only RGB is sent, both stay on the target and verification uses both
C24_OnPayload ==
    /\ pc \in {"verify", "verified"} => PayloadBuilt /\ tasks[1].service = "turn_on"
    /\ PayloadBuilt =>
           LET target == pending_targets[1]
           IN  /\ "brightness_pct" \in DOMAIN Payload
               /\ Payload["brightness_pct"] = Int_(target.brightness_pct)
               /\ "rgb_color" \in DOMAIN Payload <=> target.rgb_color # None_
               /\ "rgb_color" \in DOMAIN Payload => Payload["rgb_color"] = target.rgb_color
               /\ "color_temp_kelvin" \in DOMAIN Payload
                      <=> (target.color_temp_kelvin # None_ /\ target.rgb_color = None_)
               /\ "color_temp_kelvin" \in DOMAIN Payload
                      => Payload["color_temp_kelvin"] = target.color_temp_kelvin
               /\ ~({"rgb_color", "color_temp_kelvin"} \subseteq DOMAIN Payload)
               /\ "effect" \in DOMAIN Payload <=> target.effect # None_
               /\ "effect" \in DOMAIN Payload => Payload["effect"] = target.effect
               /\ (ColourDecides /\ "rgb_color" \in DOMAIN Payload
                       /\ target.color_temp_kelvin # None_)
                      => (result = "success"
                             <=> ~(RgbNoMatch(La, target.rgb_color, 10)
                                   /\ KelvinNoMatch(La, target.color_temp_kelvin, 150)))

\* both colours set: only RGB was sent, and the kelvin that was not sent
\* is what makes the verification pass
C24_Witness ==
    /\ PayloadBuilt
    /\ ColourDecides
    /\ pending_targets[1].rgb_color = Red
    /\ pending_targets[1].color_temp_kelvin = Int_(4000)
    /\ pending_targets[1].effect = Str_("rainbow")
    /\ DOMAIN Payload = {"brightness_pct", "rgb_color", "effect", "transition", "entity_id"}
    /\ RgbNoMatch(La, Red, 10)
    /\ ~KelvinNoMatch(La, Int_(4000), 150)
    /\ result = "success"

\* only a colour temperature set: it is sent
C24_WitnessKelvin ==
    /\ PayloadBuilt
    /\ pending_targets[1].rgb_color = None_
    /\ "color_temp_kelvin" \in DOMAIN Payload
    /\ Payload["color_temp_kelvin"] = Int_(4000)

\* ------------------------------------------------------------------------
\* C25
\* ------------------------------------------------------------------------
\* verified mode, and every resolved device reports the target state
\* within tolerance
AlreadyConverged == VerifiedMode /\ \A d \in Range(members) : Converged(d)

C25_Result ==
    /\ (Done /\ AlreadyConverged /\ sleeps # <<>>) =>
           /\ result.success
           /\ result.result_code = RESULT_CODE_SUCCESS
           /\ result.attempts = 1
           /\ result.failed_lights = <<>>
           /\ result.total_lights = Len(members)
           /\ Len(sleeps) = 1
           /\ DispatchRounds = {0}
    /\ (Done /\ AlreadyConverged /\ sleeps # <<>>
            /\ previous # None_ /\ previous.attempts >= 1) =>
           /\ result.result_code = previous.result_code
           /\ result.attempts = previous.attempts
           /\ result.total_lights = previous.total_lights

\* with budget left at the first guard check a round is dispatched
C25_Step ==
    (/\ pc = "loop"
     /\ attempt = 0
     /\ AlreadyConverged
     /\ args.max_retries >= 1
     /\ elapsed < args.max_runtime_seconds)
        => (pc' = "sending" /\ tasks' # <<>>)

\* C25: when every resolved device already reports the target state within
\* tolerance and the states do not change, a verified call with budget
\* left performs exactly one dispatch round and returns SUCCESS with
\* attempts = 1 and no failed lights; a second call under the same
\* conditions returns the same code, attempts and total_lights
C25_AlreadyConverged == [](C25_Result) /\ [][C25_Step]_vars

\* the second call on two converged lights has returned like the first
C25_Witness ==
    /\ Done
    /\ AlreadyConverged
    /\ Len(members) = 2
    /\ previous # None_
    /\ previous.attempts = 1
    /\ result.attempts = 1
    /\ result.result_code = RESULT_CODE_SUCCESS
    /\ result.total_lights = 2

\* ------------------------------------------------------------------------
\* C26
\* ------------------------------------------------------------------------
\* the loop performed all max_retries rounds and a device is still
\* mismatched
RetriesExhausted ==
    /\ Done
    /\ VerifiedMode
    /\ pending_targets # <<>>
    /\ result.attempts = args.max_retries
    /\ Len(verified) = args.max_retries

\* the devices that did not verify in the last round, in resolution order
NeverVerified ==
    SelectSeq(members,
              LAMBDA d : /\ d \in Range(verified[Len(verified)])
                         /\ d \in DOMAIN verdicts
                         /\ verdicts[d] \notin {VR_SUCCESS, VR_UNAVAILABLE})

\* every round dispatched to every device pending at that round
EveryRoundDispatched ==
    \A a \in 0..(Len(verified) - 1) :
        /\ Range(EntitiesSent(a)) = Range(verified[a + 1])
        /\ Range(PendingAfter(a + 1)) \subseteq Range(verified[a + 1])

\* C26 as stated: retries exhausted with a device still mismatched gives
\* FAILED
C26_Original ==
    RetriesExhausted =>
        /\ result.result_code = RESULT_CODE_FAILED
        /\ result.attempts = args.max_retries
        /\ result.failed_lights = NeverVerified
        /\ EveryRoundDispatched

\* C26: retries exhausted with a device still mismatched gives FAILED when
\* the elapsed time at the exit of the loop is below max_runtime_seconds
\* and TIMEOUT when the last round carried it to max_runtime_seconds or
\* beyond; either way attempts = max_retries, failed_lights are the devices
\* that never verified and every round dispatched to every device pending
\* at that round
C26_RetriesExhausted ==
    RetriesExhausted =>
        /\ result.result_code =
               IF result.elapsed_seconds < args.max_runtime_seconds
               THEN RESULT_CODE_FAILED ELSE RESULT_CODE_TIMEOUT
        /\ ~result.success
        /\ result.attempts = args.max_retries
        /\ result.failed_lights = NeverVerified
        /\ result.failed_lights # <<>>
        /\ EveryRoundDispatched

\* two rounds on two lights within the budget, one light never verified:
\* FAILED
C26_Witness ==
    /\ RetriesExhausted
    /\ args.max_retries = 2
    /\ Len(members) = 2
    /\ result.result_code = RESULT_CODE_FAILED
    /\ result.failed_lights = <<Lb>>
    /\ result.elapsed_seconds < args.max_runtime_seconds

\* all rounds performed, the guard never fired, and the result is TIMEOUT
C26_WitnessTimeout ==
    /\ RetriesExhausted
    /\ args.max_retries = 2
    /\ result.result_code = RESULT_CODE_TIMEOUT
    /\ result.elapsed_seconds >= args.max_runtime_seconds

\* ------------------------------------------------------------------------
\* C27
\* ------------------------------------------------------------------------
\* the invocation has ended
Terminated == pc \in {"done", "raised"}

\* no more rounds than max_retries, no round without a pending device, and
\* a verified call waits only inside a round
BoundedRounds ==
    /\ attempt <= args.max_retries
    /\ Len(sleeps) <= args.max_retries
    /\ Cardinality(DispatchRounds) <= args.max_retries
    /\ (pc \in {"sending", "sleeping"}) => pending_targets # <<>>
    /\ (pc = "sleeping") => attempt < args.max_retries

\* C27: every ensure_state invocation terminates, after at most
\* max_retries rounds, whatever the devices report and however their
\* states change, when every dispatch call and every sleep completes; it
\* never runs a round while pending is empty
C27_Terminates == ((pc = "start") ~> Terminated) /\ []BoundedRounds

\* the last permitted round of a call is under way while a light keeps
\* reporting the wrong state
C27_Witness ==
    /\ pc = "sleeping"
    /\ args.max_retries = 2
    /\ attempt = 1
    /\ Len(sleeps) = 2
    /\ Len(pending_targets) = 2
    /\ ~Converged(La)


\* C28: ensure_state never lets a fault escape: whatever its arguments, a
\* state argument that is not a str and a group with a member that is not a
\* str included, no exception leaves the call.
C28_NoFaultEscapes == pc # "raised"

\* a call that ended with an exception and no OperationResult: the group's
\* member list holds a member that is not a str, or the state argument is
\* not a str
C28_Witness ==
    /\ pc = "raised"
    /\ result = None_
    /\ \/ /\ args.state_target # NotAString
          /\ Gg \in Range(args.entities)
          /\ NotAStr \in Range(states[Gg].attributes.entity_id)
       \/ /\ args.state_target = NotAString
          /\ args.entities # <<>>


\* a call that ran a notification
Notified == operation # None_ /\ operation.name \in {"set_status", "create_preset", "delete_preset"}
             /\ ~(operation.name = "delete_preset" /\ returned = Returns(FALSE))

\* how often x occurs in the list
RECURSIVE count(_, _)
count(ls, x) == IF ls = <<>> THEN 0 ELSE (IF ls[1] = x THEN 1 ELSE 0) + count(Tail(ls), x)

\* s is t with some positions left out, the order kept
RECURSIVE is_subsequence(_, _)
is_subsequence(s, t) ==
    IF s = <<>> THEN TRUE
    ELSE IF t = <<>> THEN FALSE
    ELSE IF s[1] = t[1] THEN is_subsequence(Tail(s), Tail(t))
    ELSE is_subsequence(s, Tail(t))

\* the listener list a notification must leave: the registrations of the
\* snapshot in their order, those unsubscribed by a listener left out, then
\* one "late" for each call of "registrar"
ListLeftConsistent ==
    LET before == operation.snapshot
        kept == SubSeq(listeners, 1, Len(listeners) - count(before, "registrar"))
        added == SubSeq(listeners, Len(listeners) - count(before, "registrar") + 1,
                        Len(listeners))
        gone(x) ==
            CASE x = "leaver" -> count(before, "leaver")
              [] x = "quiet" -> count(before, "remover")
              [] OTHER -> 0
    IN  /\ Len(listeners) >= count(before, "registrar")
        /\ is_subsequence(kept, before)
        /\ \A x \in Range(before) :
               count(kept, x) = IF count(before, x) > gone(x)
                                THEN count(before, x) - gone(x) ELSE 0
        /\ \A i \in 1..Len(added) : added[i] = "late"

\* C29: a notification calls the listeners of the list as it was when the
\* notification started, each registration once and in registration order,
\* whatever the listeners unsubscribe or register meanwhile; a listener
\* registered meanwhile is not called, and the list is left consistent.
C29_SnapshotIteration ==
    Notified => /\ invoked = operation.snapshot
                /\ ListLeftConsistent

\* a notification during which a listener was removed before its turn, and
\* was called all the same
C29_Witness ==
    /\ Notified
    /\ operation.snapshot = << "remover", "quiet" >>
    /\ invoked = operation.snapshot
    /\ listeners = << "remover" >>

\* a notification during which a new listener was registered; it was not
\* called
C29_WitnessRegistrar ==
    /\ Notified
    /\ operation.snapshot = << "registrar", "quiet" >>
    /\ invoked = operation.snapshot
    /\ listeners = << "registrar", "quiet", "late" >>

\* a listener that unsubscribed itself during the notification, with one
\* registered after it
C29_WitnessLeaver ==
    /\ Notified
    /\ operation.snapshot = << "leaver", "quiet" >>
    /\ invoked = << "leaver", "quiet" >>
    /\ listeners = << "quiet" >>


\* what the call recorded in operation must have done to the manager
StateChangeApplied ==
    LET preset_id == operation.preset_id.v
    IN  CASE operation.name = "set_status" ->
                 /\ preset_id \in DOMAIN status
                 /\ status[preset_id].status = operation.value.v
                 /\ returned = Returns(None_)
          [] operation.name = "create_preset" ->
                 /\ preset_id \in DOMAIN presets
                 /\ presets[preset_id].id = preset_id
                 /\ presets[preset_id].name = operation.value.v
                 /\ status[preset_id] = PresetStatus(PRESET_STATUS_IDLE, None_, None_)
                 /\ entry_data = presets_data(presets)
                 /\ returned = Returns(presets[preset_id])
          [] operation.name = "delete_preset" ->
                 /\ preset_id \notin DOMAIN presets
                 /\ preset_id \notin DOMAIN status
                 /\ entry_data = presets_data(presets)
                 /\ returned = Returns(TRUE)
          [] OTHER -> TRUE

\* C30: a listener that raises does not stop the notification: the other
\* listeners of the snapshot are each called once, and create_preset,
\* delete_preset or set_status completes with its change applied.
C30_RaisingListener ==
    (Notified /\ "faulty" \in Range(operation.snapshot)) =>
        /\ \A x \in Range(operation.snapshot) :
               count(invoked, x) = count(operation.snapshot, x)
        /\ Len(invoked) = Len(operation.snapshot)
        /\ returned.t = "return"
        /\ StateChangeApplied

\* create_preset with a raising listener registered before a quiet one
C30_Witness ==
    /\ Notified
    /\ operation.name = "create_preset"
    /\ operation.snapshot = << "faulty", "quiet" >>
    /\ invoked = << "faulty", "quiet" >>
    /\ returned.t = "return"
    /\ operation.preset_id.v \in DOMAIN presets


\* the callable of handle k was registered by that one call only
RegisteredOnce(k) ==
    Cardinality({j \in 1..Len(handles) : handles[j].listener = handles[k].listener}) = 1

\* C31 as stated: a handle that was called before changes nothing when it is
\* called again.
C31_Original ==
    [][\A k \in 1..Len(handles) :
           (Unsubscribe(k) /\ handles[k].called) => listeners' = listeners]_vars

\* a handle was called: its callable of a single registration is not in the
\* list, nor among the listeners the latest notification called
HandleCalled ==
    \A k \in 1..Len(handles) :
        (handles[k].called /\ RegisteredOnce(k)) =>
            /\ handles[k].listener \notin Range(listeners)
            /\ handles[k].listener \notin Range(invoked)

\* a call of handle k takes the earliest registration of its callable off
\* the list, if there is one, and no registration of another callable; for
\* a callable of a single registration a second call changes nothing
HandleCall ==
    \A k \in 1..Len(handles) :
        Unsubscribe(k) =>
            LET c == handles[k].listener
            IN  /\ count(listeners', c) =
                       IF count(listeners, c) > 0 THEN count(listeners, c) - 1 ELSE 0
                /\ \A x \in Range(listeners) \ {c} :
                       count(listeners', x) = count(listeners, x)
                /\ is_subsequence(listeners', listeners)
                /\ (c \notin Range(listeners)) => listeners' = listeners
                /\ (handles[k].called /\ RegisteredOnce(k)) => listeners' = listeners

\* C31 (amended): the handle removes the earliest registration of its
\* callable still in the list and nothing else; when the callable was
\* registered by one call only, the listener is then off the list and not
\* called by later notifications, and calling the handle again is a no-op.
C31_Unsubscribe == []HandleCalled /\ [][HandleCall]_vars

\* the handle of "quiet" was called, and a later notification called the
\* listener registered after it
C31_Witness ==
    /\ Len(handles) = 2
    /\ handles[1] = [listener |-> "quiet", called |-> TRUE]
    /\ handles[2].listener = "faulty"
    /\ Notified
    /\ invoked = << "faulty" >>
    /\ listeners = << "faulty" >>

\* the same callable registered twice and the first handle called twice:
\* both registrations are gone
C31_WitnessTwice ==
    /\ Len(handles) = 2
    /\ handles[1] = [listener |-> "quiet", called |-> TRUE]
    /\ handles[2] = [listener |-> "quiet", called |-> FALSE]
    /\ listeners = <<>>


\* the handler found its preset and awaits the controller
ActivationBegins == activation = None_ /\ activation' # None_

\* the handler finishes, by returning the result or by raising
ActivationEnds == activation # None_ /\ activation' = None_

\* the handler refuses a preset it cannot find
ActivationRejected ==
    /\ operation' # operation
    /\ operation' # None_
    /\ operation'.name = "activate_preset"
    /\ operation'.preset_id = None_

C32_Step ==
    /\ ActivationBegins =>
           LET preset_id == activation'.preset.id
           IN  /\ status'[preset_id].status = PRESET_STATUS_ACTIVATING
               /\ pc' = "start"
               /\ service_calls' = <<>>
    /\ ActivationEnds =>
           LET preset_id == activation.preset.id
               succeeded == pc = "done" /\ result.success
           IN  /\ preset_id \in DOMAIN status'
               /\ succeeded => status'[preset_id].status = PRESET_STATUS_SUCCESS
               /\ ~succeeded => status'[preset_id].status = PRESET_STATUS_FAILED
               /\ (pc = "raised") <=> (returned' = Raises)
    /\ ActivationRejected =>
           /\ find_preset(presets, operation'.value.v) = None_
           /\ returned' = Raises
           /\ UNCHANGED << presets, status, pc, service_calls, activation >>

\* no preset is left 'activating' when no handler is running
NotLeftActivating ==
    activation = None_ =>
        \A preset_id \in DOMAIN status : status[preset_id].status # PRESET_STATUS_ACTIVATING

\* C32: the activate_preset handler sets 'activating' before it calls the
\* controller; when it finishes, by returning or by raising, the status is
\* 'success' iff the result has success = true and 'failed' otherwise, never
\* 'activating'; an unknown preset is refused with no status change and no
\* controller call.
C32_StatusLifecycle == []NotLeftActivating /\ [][C32_Step]_vars

\* an activation that raised in the controller has finished with 'failed'
C32_Witness ==
    /\ activation = None_
    /\ pc = "idle"
    /\ operation # None_
    /\ operation.name = "activate_preset"
    /\ operation.preset_id = Str_("p1")
    /\ returned = Raises
    /\ "p1" \in DOMAIN status
    /\ status["p1"].status = PRESET_STATUS_FAILED

\* an activation has finished with 'success'
C32_WitnessSuccess ==
    /\ activation = None_
    /\ operation # None_
    /\ operation.name = "activate_preset"
    /\ returned.t = "return"
    /\ result # None_
    /\ result.success
    /\ status["p1"].status = PRESET_STATUS_SUCCESS


\* a call of the manager was made in this step
Called(name) == operation' # operation /\ operation'.name = name

C33_Step ==
    /\ Called("create_preset") =>
           LET preset_id == operation'.preset_id.v
           IN  /\ preset_id \notin DOMAIN presets
               /\ DOMAIN presets' = DOMAIN presets \cup {preset_id}
               /\ \A k \in DOMAIN presets : presets'[k] = presets[k]
               /\ status'[preset_id] = PresetStatus(PRESET_STATUS_IDLE, None_, None_)
               /\ \A k \in DOMAIN status \ {preset_id} : status'[k] = status[k]
               /\ DOMAIN entry_data' = DOMAIN presets'
               /\ \A k \in DOMAIN presets' : entry_data'[k] = to_dict(presets'[k])
               /\ invoked' = listeners
               /\ returned' = Returns(presets'[preset_id])
    /\ (Called("delete_preset") /\ operation'.preset_id.v \in DOMAIN presets) =>
           LET preset_id == operation'.preset_id.v
           IN  /\ DOMAIN presets' = DOMAIN presets \ {preset_id}
               /\ \A k \in DOMAIN presets' : presets'[k] = presets[k]
               /\ DOMAIN status' = DOMAIN status \ {preset_id}
               /\ \A k \in DOMAIN status' : status'[k] = status[k]
               /\ DOMAIN entry_data' = DOMAIN presets'
               /\ \A k \in DOMAIN presets' : entry_data'[k] = to_dict(presets'[k])
               /\ invoked' = listeners
               /\ returned' = Returns(TRUE)
    /\ (Called("delete_preset") /\ operation'.preset_id.v \notin DOMAIN presets) =>
           /\ UNCHANGED << presets, status, entry_data, listeners >>
           /\ invoked' = <<>>
           /\ returned' = Returns(FALSE)

C33_WitnessCreate ==
    /\ operation # None_
    /\ operation.name = "create_preset"
    /\ Len(invoked) = 2
    /\ "p1" \in DOMAIN presets
    /\ "p1" \in DOMAIN entry_data
    /\ returned = Returns(presets["p1"])

\* ------------------------------------------------------------------------
\* C34: the runtime limit is looked at only at the top of an iteration.
\* A round that has begun is dispatched and slept through in full (no step
\* of a round returns, and asyncio.sleep lasts current_delay whatever the
\* limit), and a round begins only while elapsed is below the limit; so
\* when a verified call returns above max_runtime_seconds, it is above it
\* by less than the dispatch time plus the delay of its last round, and by
\* less than that delay alone when the dispatch took no time.
\* ------------------------------------------------------------------------
RoundRunsToItsEnd ==
    /\ (pc = "sending" /\ ~args.skip_verification) => pc' \in {"sending", "sleeping"}
    /\ pc = "sleeping" => pc' \in {"sleeping", "loop"}
    /\ (pc \in {"sending", "sleeping"} /\ ~args.skip_verification) => result' = result
    /\ (pc = "sleeping" /\ pc' = "loop") => now' = Min(now + current_delay, MaxClock)
    /\ (pc = "loop" /\ pc' = "sending") =>
           /\ elapsed < retry_config.max_runtime_seconds
           /\ current_delay' = calculate_delay(retry_config, attempt)

Overrun == result.elapsed_seconds - retry_config.max_runtime_seconds

VerifiedReturn ==
    /\ pc = "done"
    /\ ~args.skip_verification
    /\ result.result_code # RESULT_CODE_ERROR

OverrunWithinARound ==
    (VerifiedReturn /\ Overrun > 0) =>
        /\ sleeps # <<>>
        /\ Overrun < dispatched + Last(sleeps)

C34_OverrunBound == []OverrunWithinARound /\ [][RoundRunsToItsEnd]_vars

\* a call that returns as far above the limit as a round allows, its
\* dispatch having taken time
C34_Witness ==
    /\ VerifiedReturn
    /\ Overrun > 0
    /\ dispatched > 0
    /\ Overrun = dispatched + Last(sleeps) - 1

\* the same with an instantaneous dispatch
C34_WitnessInstantaneous ==
    /\ VerifiedReturn
    /\ Overrun > 0
    /\ dispatched = 0
    /\ Overrun = Last(sleeps) - 1

\* ------------------------------------------------------------------------
\* C35: the calls of ensure_state share no mutable state.  With two calls
\* over disjoint lights interleaved at their awaits in any order, the
\* locals of a call (targets, pending list, attempt counter, groups,
\* result) change only in steps of its own coroutine, and what a call
\* returns is the result of its own rounds over its own lights: as many
\* attempts as rounds it verified, its own lights counted and listed, and
\* success exactly when its own pending list emptied.
\* ------------------------------------------------------------------------
Calls == IF other = None_ THEN {"first"} ELSE {"first", "second"}

Invocation(n) == IF Running = n THEN Frame ELSE other.frame

LocalsArePrivate ==
    \A n \in Calls :
        Invocation(n)' # Invocation(n) => (Running = n /\ Running' = n)

ResultIsItsOwn(frame) ==
    (frame.pc = "done" /\ ~frame.args.skip_verification) =>
        /\ frame.result.attempts = Len(frame.hist[4])
        /\ frame.result.attempts = Len(frame.hist[1])
        /\ frame.result.total_lights = Len(frame.args.entities)
        /\ Range(frame.result.failed_lights) \subseteq Range(frame.args.entities)
        /\ frame.result.failed_lights = ids_of(frame.locals[4])
        /\ frame.result.success <=> frame.locals[4] = <<>>
        /\ \A i \in 1..Len(frame.hist[4]) :
               Range(frame.hist[4][i]) \subseteq Range(frame.args.entities)

OwnDispatches ==
    \A i \in 1..Len(tasks) :
        Range(tasks[i].data["entity_id"].v) \subseteq Range(args.entities)

ResultsAreTheirOwn ==
    /\ OwnDispatches
    /\ \A n \in Calls : ResultIsItsOwn(Invocation(n))

C35_NoSharedState == []ResultsAreTheirOwn /\ [][LocalsArePrivate]_vars

DispatchedTo(i, entity_id) ==
    /\ service_calls[i].domain = LIGHT_DOMAIN
    /\ service_calls[i].data["entity_id"].v = << entity_id >>

\* both calls have returned after interleaved rounds: the first verified
\* light.a in its second round, the second failed on light.b in its only
\* one, begun while the first was asleep
C35_Witness ==
    /\ other # None_
    /\ pc = "done"
    /\ other.frame.pc = "done"
    /\ Invocation("first").result.result_code = RESULT_CODE_SUCCESS
    /\ Invocation("first").result.attempts = 2
    /\ Invocation("second").result.result_code = RESULT_CODE_FAILED
    /\ Invocation("second").result.attempts = 1
    /\ Invocation("second").script_start > 0
    /\ \E i, j, k \in 1..Len(service_calls) :
           /\ i < j /\ j < k
           /\ DispatchedTo(i, La)
           /\ DispatchedTo(j, Lb)
           /\ DispatchedTo(k, La)

\* ------------------------------------------------------------------------
\* C36: what a SUCCESS of the verified path stands for.  A device leaves
\* the pending list only at a verification, and only with the verdict
\* SUCCESS or UNAVAILABLE; a verdict SUCCESS is given only to a device
\* whose reported status is the target state and, for ON, whose brightness
\* is within the tolerance.  success = true is returned only when every
\* resolved device has left the pending list in this way, and total_lights
\* counts them all.
\* ------------------------------------------------------------------------
Leaving == Range(ids_of(pending_targets)) \ Range(ids_of(pending_targets'))

TargetOfPending(entity_id) == CHOOSE t \in Range(pending_targets) : t.entity_id = entity_id

ReportsTarget(entity_id) ==
    LET state == states[entity_id]
    IN  /\ state # None_
        /\ state.state = (IF target_state = ON THEN STATE_ON ELSE STATE_OFF)
        /\ target_state = ON =>
               /\ state.attributes.brightness.t = "int"
               /\ within(TargetOfPending(entity_id).brightness_pct - args.brightness_tolerance,
                         round_pct(state.attributes.brightness.v),
                         TargetOfPending(entity_id).brightness_pct + args.brightness_tolerance)

LeavesOnlyVerified ==
    /\ (pc # "sleeping" \/ pc' # "loop") => Leaving = {}
    /\ (pc = "sleeping" /\ pc' = "loop") =>
           \A entity_id \in Leaving :
               /\ verdicts'[entity_id] \in {VR_SUCCESS, VR_UNAVAILABLE}
               /\ verdicts'[entity_id] = VR_SUCCESS <=> ReportsTarget(entity_id)
               /\ verdicts'[entity_id] = VR_UNAVAILABLE <=> entity_id \in found_unavailable'

SuccessfulReturn == VerifiedReturn /\ result.success

EveryDeviceLeft ==
    SuccessfulReturn =>
        /\ pending_targets = <<>>
        /\ members # <<>>
        /\ result.total_lights = Len(members)
        /\ Range(members) = Range(verified[1])

C36_SuccessIsVerified == []EveryDeviceLeft /\ [][LeavesOnlyVerified]_vars

\* C36 as stated: a successful result has no device that left the pending
\* list on another verdict than SUCCESS
C36_Original == SuccessfulReturn => found_unavailable = {}

\* a success over two lights, one verified in the target state and one
\* that had become unavailable
C36_Witness ==
    /\ SuccessfulReturn
    /\ result.total_lights = 2
    /\ Cardinality(found_unavailable) = 1

\* a success in which every light verified SUCCESS, one of them in the
\* second round
C36_WitnessAllVerified ==
    /\ SuccessfulReturn
    /\ result.total_lights = 2
    /\ result.attempts = 2
    /\ found_unavailable = {}

\* ------------------------------------------------------------------------
\* C37: with exponential backoff the delay of attempt 0 is
\* delay_after_send, whatever the cap; from attempt 1 on the delay never
\* exceeds max_backoff_seconds and never decreases.  When delay_after_send
\* is at most max_backoff_seconds this holds from attempt 0 on; when
\* delay_after_send is above it, the delay of attempt 0 is above the cap
\* and the delay drops to the cap at attempt 1.
\* ------------------------------------------------------------------------
DelayOf(n) == calculate_delay(retry_config, n)

DelayWithinCapFrom(first) ==
    /\ (pc = "delayed" /\ attempt >= first) => result <= args.max_backoff_seconds
    /\ (pc = "delayed" /\ attempt > first) => DelayOf(attempt - 1) <= result
    /\ \A k \in 1..Len(sleeps) :
           /\ k > first => sleeps[k] <= args.max_backoff_seconds
           /\ k > first + 1 => sleeps[k - 1] <= sleeps[k]

C37_DelayBounds ==
    args.use_exponential_backoff =>
        /\ (pc = "delayed" /\ attempt = 0) => result = args.delay_after_send
        /\ DelayWithinCapFrom(1)
        /\ args.delay_after_send <= args.max_backoff_seconds => DelayWithinCapFrom(0)
        /\ (args.delay_after_send > args.max_backoff_seconds /\ pc = "delayed"
                /\ attempt > 0) => result = args.max_backoff_seconds

\* C37 as stated: non-decreasing and within the cap from attempt 0 on,
\* whatever delay_after_send
C37_Original == args.use_exponential_backoff => DelayWithinCapFrom(0)

\* an ensure_state call with delay_after_send 4 and max_backoff_seconds 3
\* sleeps 4 and then 3
C37_Witness ==
    /\ args.use_exponential_backoff
    /\ args.delay_after_send > args.max_backoff_seconds
    /\ sleeps = <<4, 3>>

\* calculate_delay(1) with delay 3 and cap 2 is the cap, below the delay
\* of attempt 0
C37_WitnessDrop ==
    /\ pc = "delayed"
    /\ args.use_exponential_backoff
    /\ args.delay_after_send = 3 /\ args.max_backoff_seconds = 2
    /\ attempt = 1
    /\ result = 2
    /\ DelayOf(0) = 3

\* with the delay below the cap the delays double up to the cap
C37_WitnessDoubling ==
    /\ args.use_exponential_backoff
    /\ args.delay_after_send < args.max_backoff_seconds
    /\ sleeps = <<1, 2>>
    /\ pc = "done"

\* ------------------------------------------------------------------------
\* C38: every preset has a status entry.  A status entry for an id that is
\* not a preset comes into being only by a set_status call for that id
\* (the id of no preset, or of a preset deleted before the call), which
\* always leaves an entry for its id; create_preset and delete_preset
\* never leave one behind.
\* ------------------------------------------------------------------------
Orphans == DOMAIN status \ DOMAIN presets

EveryPresetHasStatus == DOMAIN presets \subseteq DOMAIN status

OrphanStep ==
    /\ \A k \in Orphans' \ Orphans :
           /\ Called("set_status")
           /\ operation'.preset_id.v = k
           /\ k \notin DOMAIN presets
           /\ status'[k].status = operation'.value.v
    /\ Called("set_status") => operation'.preset_id.v \in DOMAIN status'
    /\ (Called("create_preset") \/ Called("delete_preset")) => Orphans' \subseteq Orphans

C38_StatusKeys == []EveryPresetHasStatus /\ [][OrphanStep]_vars

\* C38 as stated: the two maps have the same keys
C38_Original == DOMAIN status = DOMAIN presets

\* the preset was deleted, and the set_status that followed left a status
\* entry and nothing in the preset map or the config entry
C38_Witness ==
    /\ operation # None_
    /\ operation.name = "set_status"
    /\ operation.value.v = PRESET_STATUS_SUCCESS
    /\ presets = EmptyDict
    /\ entry_data = EmptyDict
    /\ DOMAIN status = {"p1"}
    /\ status["p1"].status = PRESET_STATUS_SUCCESS

\* a preset created and its status set: the key sets agree
C38_WitnessAgree ==
    /\ operation # None_
    /\ operation.name = "set_status"
    /\ DOMAIN presets = {"p1"}
    /\ DOMAIN status = {"p1"}
    /\ status["p1"].status = PRESET_STATUS_ACTIVATING

\* ------------------------------------------------------------------------
\* C39: capture and activation.  The preset create_preset_from_current
\* made holds one target per entity with a state record, "on" for an
\* entity that is on and "off" otherwise, and its state is "on" exactly
\* when some entity is on.  While the lights are as they were captured,
\* the activation of the preset dispatches no turn_on to a light captured
\* off, and returns success.
\* ------------------------------------------------------------------------
Captured == presets["p1"]

CapturedAs(entity_id, state) ==
    \E i \in 1..Len(Captured.targets) :
        /\ Captured.targets[i].entity_id = entity_id
        /\ Captured.targets[i].state = state

IsOn(entity_id) == states[entity_id] # None_ /\ states[entity_id].state = STATE_ON

StillAsCaptured ==
    \A i \in 1..Len(Captured.targets) :
        IsOn(Captured.targets[i].entity_id) <=> Captured.targets[i].state = "on"

CaptureRecordsStates ==
    (operation # None_ /\ operation.name = "create_preset") =>
        /\ \A i \in 1..Len(Captured.entities) :
               LET entity_id == Captured.entities[i]
               IN  IF states[entity_id] = None_
                   THEN ~CapturedAs(entity_id, "on") /\ ~CapturedAs(entity_id, "off")
                   ELSE CapturedAs(entity_id, IF IsOn(entity_id) THEN "on" ELSE "off")
        /\ Captured.state = << "o", "n" >> <=> \E e \in Range(Captured.entities) : IsOn(e)
        /\ Captured.state # << "o", "n" >> => Captured.state = << "o", "f", "f" >>

\* the preset captured at least one entity and is being activated
Activating ==
    /\ activation # None_
    /\ "p1" \in DOMAIN presets
    /\ Captured.targets # <<>>

NoCapturedOffTurnedOn ==
    (Activating /\ pc = "sending" /\ StillAsCaptured) =>
        \A i \in 1..Len(tasks) :
            tasks[i].service = "turn_on" =>
                \A e \in Range(tasks[i].data["entity_id"].v) : ~CapturedAs(e, "off")

CapturedStatesSuffice ==
    (Activating /\ pc = "done" /\ StillAsCaptured) => result.success

C39_RoundTrip ==
    /\ CaptureRecordsStates
    /\ NoCapturedOffTurnedOn
    /\ CapturedStatesSuffice

\* light.a captured on and light.b captured off, both unchanged, and the
\* activation has called turn_on for both
C39_Witness ==
    /\ Activating
    /\ Captured.state = << "o", "n" >>
    /\ CapturedAs(La, "on")
    /\ CapturedAs(Lb, "off")
    /\ StillAsCaptured
    /\ pc = "sleeping"
    /\ \E i \in 1..Len(service_calls) :
           /\ service_calls[i].service = "turn_on"
           /\ service_calls[i].data["entity_id"].v = << La, Lb >>

====
